---- MODULE Spec2Model ----
(***************************************************************************)
(* Model of the request-time authentication gateway of mcp-forge-python:   *)
(* JWKSCache, JWTValidationMiddleware (mcp_app/middlewares/                *)
(* jwt_validation.py) and the claim context (mcp_app/context.py).          *)
(*                                                                         *)
(* Python strings that the code parses or slices are sequences of          *)
(* one-character strings; identifiers that are only compared (kid, client  *)
(* address, method, path) are TLA+ strings.                                *)
(***************************************************************************)
EXTENDS Integers, Sequences, FiniteSets, TLC

(***************************************************************************)
(* Bounds of the model                                                     *)
(***************************************************************************)
\* cache_interval handed to JWKSCache (seconds, as clock ticks of the model)
CacheInterval == 1
\* number of clock ticks the model lets pass after start-up
MaxTicks == 2
\* longest time, in ticks, a key-set fetch may take
MaxLatency == 1

\* time.time() at start-up is far beyond cache_interval: the first lookup of a
\* new cache (last_updated 0) always finds it stale.
StartTime == CacheInterval + 1
MaxTime == StartTime + MaxTicks

(***************************************************************************)
(* Program constants                                                       *)
(***************************************************************************)
MAX_RATE_LIMIT_REQUESTS == 10
TOKEN_MASK_LENGTH == 10
ENDSWITH_PARTS_COUNT == 2

(***************************************************************************)
(* Python str operations used by the code                                  *)
(***************************************************************************)
\* s[i:]
From(s, i) == SubSeq(s, i + 1, Len(s))

\* s[:i]
Upto(s, i) == SubSeq(s, 1, i)

\* s.startswith(p)
StartsWith(s, p) == Len(p) <= Len(s) /\ SubSeq(s, 1, Len(p)) = p

\* s.endswith(p)
EndsWith(s, p) == Len(p) <= Len(s) /\ SubSeq(s, Len(s) - Len(p) + 1, Len(s)) = p

\* s.find(sub): index (from 0) of the first occurrence, -1 when there is none
Find(s, sub) ==
    LET hits == {i \in 0..(Len(s) - Len(sub)) : SubSeq(s, i + 1, i + Len(sub)) = sub}
    IN  IF hits = {} THEN -1 ELSE CHOOSE i \in hits : \A j \in hits : i <= j

\* sub in s
Contains(s, sub) == Find(s, sub) # -1

\* s.split(sep, 1)
Split1(s, sep) ==
    LET i == Find(s, sep)
    IN  IF i = -1 THEN <<s>> ELSE <<Upto(s, i), From(s, i + Len(sep))>>

Whitespace == {" ", "\t", "\n", "\r"}

RECURSIVE LStrip(_, _)
\* s.lstrip(chars)
LStrip(s, chars) ==
    IF Len(s) > 0 /\ s[1] \in chars THEN LStrip(Tail(s), chars) ELSE s

RECURSIVE RStrip(_, _)
\* s.rstrip(chars)
RStrip(s, chars) ==
    IF Len(s) > 0 /\ s[Len(s)] \in chars THEN RStrip(Upto(s, Len(s) - 1), chars) ELSE s

\* s.strip(chars)
Strip(s, chars) == RStrip(LStrip(s, chars), chars)

(***************************************************************************)
(* Python values held by a claim set: str, int, list of str                *)
(***************************************************************************)
PyStr(s) == [t |-> "str", s |-> s, n |-> 0, l |-> <<>>]
PyInt(n) == [t |-> "int", s |-> <<>>, n |-> n, l |-> <<>>]
PyList(l) == [t |-> "list", s |-> <<>>, n |-> 0, l |-> l]
None == [t |-> "none", s |-> <<>>, n |-> 0, l |-> <<>>]

\* payload.get(key)
DictGet(payload, key) == IF key \in DOMAIN payload THEN payload[key] ELSE None

\* the empty dict
EmptyDict == [k \in {} |-> None]

\* payload.get(key) == value, for a str value
EqStr(val, value) == val.t = "str" /\ val.s = value

(***************************************************************************)
(* Condition evaluator: JWTValidationMiddleware._check_condition           *)
(***************************************************************************)
PayloadDot == <<"p", "a", "y", "l", "o", "a", "d", ".">>
PayloadSub == <<"p", "a", "y", "l", "o", "a", "d", "_", "[", "'">>
SubClose == <<"'", "]">>
EqOp == <<" ", "=", "=", " ">>
EndsOp == <<".", "e", "n", "d", "s", "w", "i", "t", "h", "(">>
CloseParen == <<")">>

\* value.strip().strip('"').strip("'")
Unquote(v) == Strip(Strip(Strip(v, Whitespace), {"\""}), {"'"})

\* parts[1].rstrip(")").strip('"').strip("'")
SuffixOf(v) == Strip(Strip(RStrip(v, {")"}), {"\""}), {"'"})

\* field[10:-2]
SubscriptKey(field) == SubSeq(field, 11, Len(field) - 2)

\* mutant of EqualityBranch: only the payload.<claim> form is evaluated
EqualityBranch_DotOnly(condition, payload) ==
    LET parts == Split1(condition, EqOp)
        field == Strip(parts[1], Whitespace)
        value == Unquote(parts[2])
    IN  IF StartsWith(field, PayloadDot)
        THEN [ok |-> EqStr(DictGet(payload, From(field, 8)), value), warned |-> FALSE]
        ELSE [ok |-> FALSE, warned |-> TRUE]

\* the "==" branch; warned: the branch returned nothing and control fell
\* through to the unsupported-condition warning
EqualityBranch(condition, payload) ==
    LET parts == Split1(condition, EqOp)
        field == Strip(parts[1], Whitespace)
        value == Unquote(parts[2])
    IN  IF StartsWith(field, PayloadDot)
        THEN [ok |-> EqStr(DictGet(payload, From(field, 8)), value), warned |-> FALSE]
        ELSE IF StartsWith(field, PayloadSub) /\ EndsWith(field, SubClose)
        THEN [ok |-> EqStr(DictGet(payload, SubscriptKey(field)), value), warned |-> FALSE]
        ELSE [ok |-> FALSE, warned |-> TRUE]

\* the ".endswith(" branch
EndswithBranch(condition, payload) ==
    LET parts == Split1(condition, EndsOp)
    IN  IF Len(parts) = ENDSWITH_PARTS_COUNT /\ StartsWith(parts[1], PayloadDot)
        THEN LET key == From(parts[1], 8)
                 suffix == SuffixOf(parts[2])
                 field_value == DictGet(payload, key)
             IN  [ok |-> field_value.t = "str" /\ EndsWith(field_value.s, suffix),
                  warned |-> FALSE]
        ELSE [ok |-> FALSE, warned |-> TRUE]

\* mutant of CheckConditionLogged: an unsupported condition passes
CheckConditionLogged_FailOpen(condition, payload) ==
    IF Contains(condition, EqOp)
    THEN EqualityBranch(condition, payload)
    ELSE IF Contains(condition, EndsOp) /\ EndsWith(condition, CloseParen)
    THEN EndswithBranch(condition, payload)
    ELSE [ok |-> TRUE, warned |-> TRUE]

\* _check_condition with the warning it logs
CheckConditionLogged(condition, payload) ==
    IF Contains(condition, EqOp)
    THEN EqualityBranch(condition, payload)
    ELSE IF Contains(condition, EndsOp) /\ EndsWith(condition, CloseParen)
    THEN EndswithBranch(condition, payload)
    ELSE [ok |-> FALSE, warned |-> TRUE]

\* _check_condition(condition, payload) -> bool
CheckCondition(condition, payload) == CheckConditionLogged(condition, payload).ok

\* mutant of ConditionsMet: one condition that holds is enough
ConditionsMet_Any(conditions, payload) ==
    \E i \in 1..Len(conditions) : CheckCondition(conditions[i], payload)

\* the loop over self.allow_conditions: TRUE iff no condition fails
ConditionsMet(conditions, payload) ==
    \A i \in 1..Len(conditions) : CheckCondition(conditions[i], payload)

(***************************************************************************)
(* Claim context: mcp_app/context.py                                       *)
(***************************************************************************)
cRoles == <<"r", "o", "l", "e", "s">>
cScope == <<"s", "c", "o", "p", "e">>
cSub == <<"s", "u", "b">>
cExp == <<"e", "x", "p">>
cIss == <<"i", "s", "s">>
cAud == <<"a", "u", "d">>

\* jwt_context_config.exposed_claims: "all", a list of names, or anything else
ExposeAll == [kind |-> "all", names |-> {}]
ExposeList(names) == [kind |-> "list", names |-> names]
ExposeOther == [kind |-> "other", names |-> {}]

\* mutant of FilterPayload: roles and scope are kept only when listed
FilterPayload_NoAlways(payload, exposed_claims) ==
    IF exposed_claims.kind = "all" THEN payload
    ELSE IF exposed_claims.kind = "list"
    THEN [k \in {x \in DOMAIN payload : x \in exposed_claims.names} |-> payload[k]]
    ELSE payload

\* mutant of FilterPayload: a misconfigured policy exposes nothing
FilterPayload_OtherEmpty(payload, exposed_claims) ==
    LET always_include == {cRoles, cScope}
    IN  IF exposed_claims.kind = "all" THEN payload
        ELSE IF exposed_claims.kind = "list"
        THEN LET exposed == exposed_claims.names \cup always_include
             IN  [k \in {x \in DOMAIN payload : x \in exposed} |-> payload[k]]
        ELSE EmptyDict

\* filter_payload(payload)
FilterPayload(payload, exposed_claims) ==
    LET always_include == {cRoles, cScope}
    IN  IF exposed_claims.kind = "all" THEN payload
        ELSE IF exposed_claims.kind = "list"
        THEN LET exposed == exposed_claims.names \cup always_include
             IN  [k \in {x \in DOMAIN payload : x \in exposed} |-> payload[k]]
        ELSE payload

\* the two ContextVars of one execution context; default None
CtxDefault == [set |-> FALSE, jwt_token |-> <<>>, jwt_payload |-> EmptyDict]


\* mutant of SetJwtContext: the payload is stored without filter_payload
SetJwtContext_Unfiltered(token, payload, exposed_claims) ==
    [set |-> TRUE, jwt_token |-> token, jwt_payload |-> payload]

\* set_jwt_context(token, payload)
SetJwtContext(token, payload, exposed_claims) ==
    [set |-> TRUE, jwt_token |-> token, jwt_payload |-> FilterPayload(payload, exposed_claims)]

(***************************************************************************)
(* Key set documents and JWKSCache                                         *)
(***************************************************************************)
\* one entry of a JWKS "keys" array: has_kid is '"kid" in key'; kty "RSA" and
\* "EC" are keys jwt.PyJWK accepts, kty "bad" is one it raises on; alg is the
\* algorithm the entry declares; mat identifies the key material.
Jwk(has_kid, kid, kty, alg, mat) ==
    [has_kid |-> has_kid, kid |-> kid, kty |-> kty, alg |-> alg, mat |-> mat]

NoKey == Jwk(FALSE, "", "none", "", "")

\* the documents the key-set endpoint may serve
DocA == << Jwk(TRUE, "k1", "RSA", "RS256", "m1"),
           Jwk(FALSE, "", "RSA", "RS256", "m0"),
           Jwk(TRUE, "k3", "bad", "RS256", "m9") >>
DocB == << Jwk(TRUE, "k2", "RSA", "RS256", "m2"),
           Jwk(TRUE, "k2", "EC", "ES256", "m3") >>
Docs == {DocA, DocB}

\* what requests.get(...) / raise_for_status() / json() may do: a document
\* after delay ticks, or an exception after delay ticks
FetchOutcomes ==
    [ok : {TRUE}, doc : Docs, delay : 0..MaxLatency]
    \cup [ok : {FALSE}, doc : {<<>>}, delay : 0..MaxLatency]


\* mutant of DocKeys: the test '"kid" in key' is dropped, an entry without kid
\* is stored under the empty kid
DocKeys_AllEntries(doc) ==
    LET all == 1..Len(doc)
        last(k) == CHOOSE i \in all :
                       doc[i].kid = k /\ \A j \in all : doc[j].kid = k => j <= i
    IN  [k \in {doc[i].kid : i \in all} |-> doc[last(k)]]

\* {key["kid"]: key for key in jwks.get("keys", []) if "kid" in key}
DocKeys(doc) ==
    LET withKid == {i \in 1..Len(doc) : doc[i].has_kid}
        last(k) == CHOOSE i \in withKid :
                       doc[i].kid = k /\ \A j \in withKid : doc[j].kid = k => j <= i
    IN  [k \in {doc[i].kid : i \in withKid} |-> doc[last(k)]]

\* JWKSCache.__init__
NewJWKSCache(cache_interval) ==
    [configured |-> TRUE, cache_interval |-> cache_interval,
     keys |-> [k \in {} |-> NoKey], last_updated |-> 0]

\* self.jwks = None
NoJwks ==
    [configured |-> FALSE, cache_interval |-> 0,
     keys |-> [k \in {} |-> NoKey], last_updated |-> 0]


\* mutant of RefreshKeys: the fetched keys are added to the old mapping
RefreshKeys_Merges(cache, fetch, t) ==
    IF fetch.ok
    THEN [cache EXCEPT
            !.keys = [k \in DOMAIN cache.keys \cup DOMAIN DocKeys(fetch.doc) |->
                         IF k \in DOMAIN DocKeys(fetch.doc)
                         THEN DocKeys(fetch.doc)[k] ELSE cache.keys[k]],
            !.last_updated = t]
    ELSE cache

\* mutant of RefreshKeys: a failed fetch empties the mapping
RefreshKeys_DropsOnFailure(cache, fetch, t) ==
    IF fetch.ok
    THEN [cache EXCEPT !.keys = DocKeys(fetch.doc), !.last_updated = t]
    ELSE [cache EXCEPT !.keys = [k \in {} |-> NoKey]]

\* mutant of RefreshKeys: last_updated is set whatever the fetch did
RefreshKeys_StampsAlways(cache, fetch, t) ==
    IF fetch.ok
    THEN [cache EXCEPT !.keys = DocKeys(fetch.doc), !.last_updated = t]
    ELSE [cache EXCEPT !.last_updated = t]

\* JWKSCache._refresh_keys; t is time.time() when the fetch has returned
RefreshKeys(cache, fetch, t) ==
    IF fetch.ok
    THEN [cache EXCEPT !.keys = DocKeys(fetch.doc), !.last_updated = t]
    ELSE cache


\* mutant of IsStale: every lookup refreshes
IsStale_Always(cache, t) == t >= cache.last_updated

\* mutant of IsStale: >= in place of >
IsStale_Ge(cache, t) == t - cache.last_updated >= cache.cache_interval

\* now - self.last_updated > self.cache_interval
IsStale(cache, t) == t - cache.last_updated > cache.cache_interval


\* mutant of GetKey: a kid that is missed makes the cache fetch once more
GetKey_RefetchOnMiss(cache, kid, t, fetch) ==
    LET stale == IsStale(cache, t)
        t2 == IF stale THEN t + fetch.delay ELSE t
        cache2 == IF stale THEN RefreshKeys(cache, fetch, t2) ELSE cache
        miss == kid \notin DOMAIN cache2.keys
        cache3 == IF miss THEN RefreshKeys(cache2, fetch, t2) ELSE cache2
    IN  [found |-> kid \in DOMAIN cache3.keys,
         key |-> IF kid \in DOMAIN cache3.keys THEN cache3.keys[kid] ELSE NoKey,
         cache |-> cache3, now |-> t2,
         fetches |-> (IF stale THEN 1 ELSE 0) + (IF miss THEN 1 ELSE 0)]

\* mutant of GetKey: the kid is looked up before the refresh
GetKey_OldMapping(cache, kid, t, fetch) ==
    LET stale == IsStale(cache, t)
        t2 == IF stale THEN t + fetch.delay ELSE t
        cache2 == IF stale THEN RefreshKeys(cache, fetch, t2) ELSE cache
    IN  [found |-> kid \in DOMAIN cache.keys,
         key |-> IF kid \in DOMAIN cache.keys THEN cache.keys[kid] ELSE NoKey,
         cache |-> cache2, now |-> t2, fetches |-> IF stale THEN 1 ELSE 0]

\* JWKSCache.get_key(kid) called at time t, the network answering with fetch:
\* the key found (or not), the cache and the clock afterwards, and the number
\* of fetches performed
GetKey(cache, kid, t, fetch) ==
    LET stale == IsStale(cache, t)
        t2 == IF stale THEN t + fetch.delay ELSE t
        cache2 == IF stale THEN RefreshKeys(cache, fetch, t2) ELSE cache
    IN  [found |-> kid \in DOMAIN cache2.keys,
         key |-> IF kid \in DOMAIN cache2.keys THEN cache2.keys[kid] ELSE NoKey,
         cache |-> cache2, now |-> t2, fetches |-> IF stale THEN 1 ELSE 0]

(***************************************************************************)
(* Tokens                                                                  *)
(***************************************************************************)
\* expiry timestamps relative to the clock of the model
ExpPast == StartTime - 1
ExpMid == StartTime + 1
ExpFuture == MaxTime + MaxLatency + 1

IdpA == <<"i", "d", "p", "A">>
IdpB == <<"i", "d", "p", "B">>
Api == <<"a", "p", "i">>
Admin == <<"a", "d", "m", "i", "n">>
User == <<"u", "s", "e", "r">>

\* a dict from a set of <<name, value>> pairs
Dict(pairs) == [k \in {p[1] : p \in pairs} |-> (CHOOSE p \in pairs : p[1] = k)[2]]

\* a token: raw is the compact serialisation, the rest what PyJWT reads from it;
\* signer is the key material whose private half signed it
Tok(raw, has_kid, kid, alg, signer, payload) ==
    [raw |-> raw, has_kid |-> has_kid, kid |-> kid, alg |-> alg, signer |-> signer,
     payload |-> payload]

TokAdmin == Tok(<<"j", "w", "t", ".", "a", "d", "m", "i", "n", ".", "i", "d", "p", "A">>, TRUE, "k1", "RS256", "m1",
    Dict({<<cSub, PyStr(<<"u", "1">>)>>, <<cScope, PyStr(Admin)>>, <<cIss, PyStr(IdpA)>>,
          <<cAud, PyStr(Api)>>, <<cExp, PyInt(ExpFuture)>>}))
TokUser == Tok(<<"j", "w", "t", ".", "u", "s", "e", "r", ".", "i", "d", "p", "A">>, TRUE, "k1", "RS256", "m1",
    Dict({<<cSub, PyStr(<<"u", "2">>)>>, <<cScope, PyStr(User)>>, <<cIss, PyStr(IdpA)>>,
          <<cAud, PyStr(Api)>>, <<cExp, PyInt(ExpFuture)>>}))
TokWrongIss == Tok(<<"j", "w", "t", ".", "a", "d", "m", "i", "n", ".", "i", "d", "p", "B">>, TRUE, "k1", "RS256", "m1",
    Dict({<<cSub, PyStr(<<"u", "1">>)>>, <<cScope, PyStr(Admin)>>, <<cIss, PyStr(IdpB)>>,
          <<cAud, PyStr(Api)>>, <<cExp, PyInt(ExpFuture)>>}))
TokPlain == Tok(<<"j", "w", "t", ".", "p", "l", "a", "i", "n", ".", "m", "i", "d">>, TRUE, "k1", "RS256", "m1",
    Dict({<<cSub, PyStr(<<"u", "1">>)>>, <<cScope, PyStr(Admin)>>, <<cExp, PyInt(ExpMid)>>}))
TokExpired == Tok(<<"j", "w", "t", ".", "e", "x", "p", "i", "r", "e", "d", ".", "m", "1">>, TRUE, "k1", "RS256", "m1",
    Dict({<<cSub, PyStr(<<"u", "1">>)>>, <<cExp, PyInt(ExpPast)>>}))
TokExpiredForged == Tok(<<"j", "w", "t", ".", "e", "x", "p", "i", "r", "e", "d", ".", "x", "x">>, TRUE, "k1", "RS256", "forged",
    Dict({<<cSub, PyStr(<<"u", "1">>)>>, <<cExp, PyInt(ExpPast)>>}))
TokForged == Tok(<<"j", "w", "t", ".", "f", "o", "r", "g", "e", "d", ".", "x", "x">>, TRUE, "k1", "RS256", "forged",
    Dict({<<cSub, PyStr(<<"u", "1">>)>>, <<cScope, PyStr(Admin)>>, <<cExp, PyInt(ExpFuture)>>}))
TokUnknownKid == Tok(<<"j", "w", "t", ".", "k", "i", "d", ".", "k", "9">>, TRUE, "k9", "RS256", "m1",
    Dict({<<cSub, PyStr(<<"u", "1">>)>>, <<cExp, PyInt(ExpFuture)>>}))
TokNoKid == Tok(<<"j", "w", "t", ".", "n", "o", "k", "i", "d">>, FALSE, "", "RS256", "m1",
    Dict({<<cSub, PyStr(<<"u", "1">>)>>, <<cExp, PyInt(ExpFuture)>>}))
TokBadJwk == Tok(<<"j", "w", "t", ".", "k", "i", "d", ".", "k", "3">>, TRUE, "k3", "RS256", "m9",
    Dict({<<cSub, PyStr(<<"u", "1">>)>>, <<cExp, PyInt(ExpFuture)>>}))
TokK2Rs == Tok(<<"j", "w", "t", ".", "k", "2", ".", "r", "s", "2", "5", "6">>, TRUE, "k2", "RS256", "m2",
    Dict({<<cSub, PyStr(<<"u", "1">>)>>, <<cExp, PyInt(ExpPast)>>}))
TokK2Es == Tok(<<"j", "w", "t", ".", "k", "2", ".", "e", "s", "2", "5", "6">>, TRUE, "k2", "ES256", "m3",
    Dict({<<cSub, PyStr(<<"u", "1">>)>>, <<cExp, PyInt(ExpFuture)>>}))

Tokens == {TokAdmin, TokUser, TokWrongIss, TokPlain, TokExpired, TokExpiredForged,
           TokForged, TokUnknownKid, TokNoKid, TokBadJwk, TokK2Rs, TokK2Es}

\* a string that is no JWT
Garbage == <<"n", "o", "t", "-", "a", "-", "j", "w", "t">>

\* the token a compact serialisation parses to
ParseToken(raw) == CHOOSE t \in Tokens : t.raw = raw

\* jwt.get_unverified_header(token) returns a header (no PyJWTError)
HeaderDecodes(raw) == \E t \in Tokens : t.raw = raw

(***************************************************************************)
(* jwt.decode as _validate_local calls it                                  *)
(***************************************************************************)
\* PyJWT's issuer check: none configured, or the iss claim equals it
IssuerOk(payload, issuer) ==
    \/ ~issuer.set
    \/ cIss \in DOMAIN payload /\ EqStr(payload[cIss], issuer.v)

\* PyJWT's audience check: none configured and no aud claim, or the aud claim
\* equals the configured audience
AudienceOk(payload, audience) ==
    IF ~audience.set
    THEN cAud \notin DOMAIN payload
    ELSE cAud \in DOMAIN payload /\ EqStr(payload[cAud], audience.v)

\* the exp claim is present and not after t
IsExpired(payload, t) == cExp \in DOMAIN payload /\ payload[cExp].n <= t


\* mutant of JwtDecode: verify_aud switched off
JwtDecode_NoAudience(tok, key, issuer, audience, t) ==
    IF tok.alg # "RS256" THEN "invalid"
    ELSE IF key.kty # "RSA" THEN "error"
    ELSE IF tok.signer # key.mat THEN "invalid"
    ELSE IF IsExpired(tok.payload, t) THEN "expired"
    ELSE IF ~IssuerOk(tok.payload, issuer) THEN "invalid"
    ELSE "ok"

\* mutant of JwtDecode: verify_exp switched off
JwtDecode_NoExpiry(tok, key, issuer, audience, t) ==
    IF tok.alg # "RS256" THEN "invalid"
    ELSE IF key.kty # "RSA" THEN "error"
    ELSE IF tok.signer # key.mat THEN "invalid"
    ELSE IF ~IssuerOk(tok.payload, issuer) THEN "invalid"
    ELSE IF ~AudienceOk(tok.payload, audience) THEN "invalid"
    ELSE "ok"

\* jwt.decode(token, public_key, algorithms=["RS256"], audience=..., issuer=...,
\* options={verify_exp, verify_iss, verify_aud}) at time t:
\*   "ok"      the payload is returned
\*   "expired" jwt.ExpiredSignatureError
\*   "invalid" another jwt.InvalidTokenError (algorithm, signature, iss, aud)
\*   "error"   an exception that is no InvalidTokenError (the RS256 algorithm
\*             handed a key that is no RSA key)
JwtDecode(tok, key, issuer, audience, t) ==
    IF tok.alg # "RS256" THEN "invalid"
    ELSE IF key.kty # "RSA" THEN "error"
    ELSE IF tok.signer # key.mat THEN "invalid"
    ELSE IF IsExpired(tok.payload, t) THEN "expired"
    ELSE IF ~IssuerOk(tok.payload, issuer) THEN "invalid"
    ELSE IF ~AudienceOk(tok.payload, audience) THEN "invalid"
    ELSE "ok"

(***************************************************************************)
(* Requests                                                                *)
(***************************************************************************)
Bearer == <<"B", "e", "a", "r", "e", "r", " ">>
Ellipsis == <<".", ".", ".">>

\* request.headers.get("Authorization"): absent, or a value
NoAuth == [present |-> FALSE, value |-> <<>>]
Auth(v) == [present |-> TRUE, value |-> v]

\* request.client is None
NoClient == "<none>"

Request(method, path, client, auth) ==
    [method |-> method, path |-> path, client |-> client, auth |-> auth]

\* request.client.host if request.client else "unknown"
ClientIp(req) == IF req.client = NoClient THEN "unknown" ELSE req.client


\* mutant of IsBypassed: "/error" missing from the exempted paths
IsBypassed_NoError(req) ==
    req.method = "OPTIONS" \/ req.path \in {"/login", "/callback"}

\* the two early returns of dispatch
IsBypassed(req) ==
    req.method = "OPTIONS" \/ req.path \in {"/login", "/callback", "/error"}

(***************************************************************************)
(* Rate limiter: self.rate_limit                                           *)
(***************************************************************************)
\* self.rate_limit.get(client_ip, 0)
RateGet(rl, ip) == IF ip \in DOMAIN rl THEN rl[ip] ELSE 0

\* self.rate_limit.get(client_ip, 0) > MAX_RATE_LIMIT_REQUESTS
RateExceeded(rl, ip) == RateGet(rl, ip) > MAX_RATE_LIMIT_REQUESTS

\* mutant of RateBump: the value written comes from a read that saw no entry
\* for the address, so the updates made in between are lost
RateBump_Lost(rl, ip) ==
    [a \in DOMAIN rl \cup {ip} |-> IF a = ip THEN 1 ELSE rl[a]]

\* self.rate_limit[client_ip] = self.rate_limit.get(client_ip, 0) + 1
RateBump(rl, ip) ==
    [a \in DOMAIN rl \cup {ip} |-> IF a = ip THEN RateGet(rl, ip) + 1 ELSE rl[a]]

(***************************************************************************)
(* JWTValidationMiddleware._validate_local                                 *)
(***************************************************************************)
\* mutant of MaskToken: the token is forwarded whole
MaskToken_Raw(token) == token

\* token[:TOKEN_MASK_LENGTH] + "..." if len(token) > TOKEN_MASK_LENGTH else token
MaskToken(token) ==
    IF Len(token) > TOKEN_MASK_LENGTH THEN Upto(token, TOKEN_MASK_LENGTH) \o Ellipsis
    ELSE token

\* How one call of _validate_local ends.  verdict: "ok" (returns), "http"
\* (raises HTTPException(status, detail)), "raise" (raises something else);
\* stage: the step of the pipeline that ended it; rate_limit, jwks, now: the
\* shared state afterwards; ctx: the caller's context variables afterwards;
\* appended: what was appended to request.headers; fetches: key-set fetches.
Outcome(verdict, status, detail, stage, rl, cache, t, ctx, appended, fetches) ==
    [verdict |-> verdict, status |-> status, detail |-> detail, stage |-> stage,
     rate_limit |-> rl, jwks |-> cache, now |-> t, ctx |-> ctx,
     appended |-> appended, fetches |-> fetches]

\* raise HTTPException(status_code=status, detail=detail)
Reject(status, detail, stage, rl, cache, t, fetches) ==
    Outcome("http", status, detail, stage, rl, cache, t, CtxDefault, <<>>, fetches)

\* lines 196-263: the key was found; convert it, verify, check the conditions,
\* append the forwarded header and set the context
VerifyAndPropagate(token, tok, g, conf, rl) ==
    IF g.key.kty = "bad"
    THEN Reject(401, "Invalid JWK", "jwk", rl, g.cache, g.now, g.fetches)
    ELSE LET decoded == JwtDecode(tok, g.key, conf.issuer, conf.audience, g.now)
         IN  IF decoded = "error"
             THEN Outcome("raise", 0, "TypeError", "verify", rl, g.cache, g.now,
                          CtxDefault, <<>>, g.fetches)
             ELSE IF decoded = "expired"
             THEN Reject(401, "JWT expired", "verify", rl, g.cache, g.now, g.fetches)
             ELSE IF decoded = "invalid"
             THEN Reject(401, "Invalid JWT", "verify", rl, g.cache, g.now, g.fetches)
             ELSE IF ~ConditionsMet(conf.allow_conditions, tok.payload)
             THEN Reject(401, "JWT does not meet conditions", "conditions",
                         rl, g.cache, g.now, g.fetches)
             ELSE Outcome("ok", 0, "", "propagate", rl, g.cache, g.now,
                          SetJwtContext(token, tok.payload, conf.exposed_claims),
                          << <<conf.forwarded_header, MaskToken(token)>> >>,
                          g.fetches)

\* lines 135-194: the rate check has passed and the counter is rl
ExtractAndLookup(req, conf, rl, cache, t, fetch) ==
    LET auth_header == req.auth
        token == From(auth_header.value, 7)
    IN  IF ~auth_header.present \/ auth_header.value = <<>>
           \/ ~StartsWith(auth_header.value, Bearer)
        THEN Reject(401, "Invalid Authorization header", "extract", rl, cache, t, 0)
        ELSE IF ~HeaderDecodes(token)
        THEN Reject(401, "Invalid JWT header: DecodeError", "header", rl, cache, t, 0)
        ELSE LET tok == ParseToken(token)
             IN  IF ~tok.has_kid \/ tok.kid = ""
                 THEN Reject(401, "Invalid JWT header", "kid", rl, cache, t, 0)
                 ELSE IF ~cache.configured
                 THEN Reject(401, "JWKS not configured", "jwks", rl, cache, t, 0)
                 ELSE LET g == GetKey(cache, tok.kid, t, fetch)
                      IN  IF ~g.found
                          THEN Reject(401, "Key not found in JWKS", "lookup",
                                      rl, g.cache, g.now, g.fetches)
                          ELSE VerifyAndPropagate(token, tok, g, conf, rl)


\* mutant of ValidateLocal: only an attempt that ends in success is counted
ValidateLocal_CountOnSuccess(req, conf, rl, cache, t, fetch) ==
    LET client_ip == ClientIp(req)
        o == ExtractAndLookup(req, conf, rl, cache, t, fetch)
    IN  IF RateExceeded(rl, client_ip)
        THEN Reject(429, "Rate limit exceeded", "rate", rl, cache, t, 0)
        ELSE IF o.verdict = "ok"
        THEN [o EXCEPT !.rate_limit = RateBump(rl, client_ip)]
        ELSE o

\* mutant of ValidateLocal: the Authorization header is looked at before the
\* rate check
ValidateLocal_ExtractFirst(req, conf, rl, cache, t, fetch) ==
    LET client_ip == ClientIp(req)
    IN  IF ~req.auth.present
        THEN Reject(401, "Invalid Authorization header", "extract",
                    RateBump(rl, client_ip), cache, t, 0)
        ELSE IF RateExceeded(rl, client_ip)
        THEN Reject(429, "Rate limit exceeded", "rate", rl, cache, t, 0)
        ELSE ExtractAndLookup(req, conf, RateBump(rl, client_ip), cache, t, fetch)

\* _validate_local(request), called at time t with the counters rl and the
\* key cache cache, the network answering a fetch with fetch
ValidateLocal(req, conf, rl, cache, t, fetch) ==
    LET client_ip == ClientIp(req)
    IN  IF RateExceeded(rl, client_ip)
        THEN Reject(429, "Rate limit exceeded", "rate", rl, cache, t, 0)
        ELSE ExtractAndLookup(req, conf, RateBump(rl, client_ip), cache, t, fetch)

(***************************************************************************)
(* Configuration of the middleware (JWTValidationMiddleware.__init__ and   *)
(* set_exposed_claims)                                                     *)
(***************************************************************************)
Unset == [set |-> FALSE, v |-> <<>>]
Opt(v) == [set |-> TRUE, v |-> v]

CondScopeAdmin == <<"p", "a", "y", "l", "o", "a", "d", ".", "s", "c", "o", "p", "e", " ", "=", "=", " ", "\"", "a", "d", "m", "i", "n", "\"">>

Config(strategy, jwks_uri_set, allow_conditions, issuer, audience, exposed_claims) ==
    [strategy |-> strategy, forwarded_header |-> "X-Validated-Jwt",
     jwks_uri_set |-> jwks_uri_set, cache_interval |-> CacheInterval,
     allow_conditions |-> allow_conditions, issuer |-> issuer, audience |-> audience,
     exposed_claims |-> exposed_claims]

\* no issuer, no audience, no conditions, every claim exposed (the defaults)
PlainConfig(strategy, jwks_uri_set) ==
    Config(strategy, jwks_uri_set, <<>>, Unset, Unset, ExposeAll)

\* issuer, audience, one allow-condition and a list of exposed claims
StrictConfig(strategy, jwks_uri_set) ==
    Config(strategy, jwks_uri_set, <<CondScopeAdmin>>, Opt(IdpA), Opt(Api),
           ExposeList({cSub}))

Configs ==
    {PlainConfig(s, j) : s \in {"local", "external"}, j \in BOOLEAN}
    \cup {StrictConfig(s, j) : s \in {"local", "external"}, j \in BOOLEAN}

(***************************************************************************)
(* State                                                                   *)
(***************************************************************************)
VARIABLES
    cfg,          \* the middleware's configuration, fixed at construction
    now,          \* time.time()
    rate_limit,   \* JWTValidationMiddleware.rate_limit: address -> count
    jwks,         \* JWTValidationMiddleware.jwks: the JWKSCache, or NoJwks
    reqs,         \* the requests in flight, one record per request task
    attempts,     \* history: validation attempts made so far per address
    quiet,        \* history: ticks since the last validation attempt per address
    call          \* history: the last call made to a component directly (not
                  \* through dispatch), with its inputs and its outcome

vars == <<cfg, now, rate_limit, jwks, reqs, attempts, quiet, call>>

\* no component has been called directly
NoCall == [op |-> "none"]

\* history counters stop counting here
MaxAttempts == MAX_RATE_LIMIT_REQUESTS + 2

\* a request task that has not received a request yet
IdleTask ==
    [pc |-> "idle", req |-> Request("", "", NoClient, NoAuth), result |-> "none",
     status |-> 0, detail |-> "", stage |-> "", called |-> 0, ctx |-> CtxDefault,
     appended |-> <<>>, seen |-> CtxDefault, fetches |-> 0, attempt |-> 0]

\* self.jwks = JWKSCache(jwks_uri, cache_interval) if jwks_uri else None
InitJwks(conf) ==
    IF conf.jwks_uri_set THEN NewJWKSCache(conf.cache_interval) ELSE NoJwks

InitWith(conf, tasks) ==
    /\ cfg = conf
    /\ now = StartTime
    /\ rate_limit = [a \in {} |-> 0]
    /\ jwks = InitJwks(conf)
    /\ reqs = [s \in tasks |-> IdleTask]
    /\ attempts = [a \in {} |-> 0]
    /\ quiet = [a \in {} |-> 0]
    /\ call = NoCall

(***************************************************************************)
(* JWTValidationMiddleware.dispatch                                        *)
(***************************************************************************)
\* history: one more validation attempt from ip
CountAttempt(att, ip) ==
    [a \in DOMAIN att \cup {ip} |->
        IF a = ip
        THEN (IF RateGet(att, ip) < MaxAttempts THEN RateGet(att, ip) + 1 ELSE MaxAttempts)
        ELSE att[a]]

\* the task after dispatch has reached "return await call_next(request)":
\* the downstream handler runs next, in a copy of this context
Forwarding(req, stage, ctx, appended, fetches, attempt) ==
    [pc |-> "call_next", req |-> req, result |-> "pending", status |-> 0,
     detail |-> "", stage |-> stage, called |-> 0, ctx |-> ctx,
     appended |-> appended, seen |-> CtxDefault, fetches |-> fetches,
     attempt |-> attempt]

\* the task after dispatch has returned JSONResponse(status_code, detail), or
\* after an exception has left dispatch (result "raised")
Finished(req, o, attempt) ==
    [pc |-> "done", req |-> req,
     result |-> IF o.verdict = "http" THEN "rejected" ELSE "raised",
     status |-> o.status, detail |-> o.detail, stage |-> o.stage, called |-> 0,
     ctx |-> o.ctx, appended |-> o.appended, seen |-> CtxDefault,
     fetches |-> o.fetches, attempt |-> attempt]

\* the answers of the network that matter to a call of _validate_local: all of
\* them when the call fetches the key set, one (unused) when it does not
FetchChoices(req) ==
    LET unused == CHOOSE f \in FetchOutcomes : TRUE
    IN  IF ValidateLocal(req, cfg, rate_limit, jwks, now, unused).fetches = 0
        THEN {unused}
        ELSE FetchOutcomes

\* dispatch up to its await of call_next (or to its return), for a request
\* that the two early returns do not cover, under the local strategy
DispatchLocal(s, req) ==
    \E fetch \in FetchChoices(req) :
        LET o == ValidateLocal(req, cfg, rate_limit, jwks, now, fetch)
            att == CountAttempt(attempts, ClientIp(req))
            n == att[ClientIp(req)]
        IN  /\ o.now <= MaxTime
            /\ rate_limit' = o.rate_limit
            /\ jwks' = o.jwks
            /\ now' = o.now
            /\ attempts' = att
            /\ quiet' = [a \in DOMAIN quiet \cup {ClientIp(req)} |->
                            IF a = ClientIp(req) THEN 0 ELSE quiet[a]]
            /\ reqs' = [reqs EXCEPT ![s] =
                            IF o.verdict = "ok"
                            THEN Forwarding(req, o.stage, o.ctx, o.appended, o.fetches, n)
                            ELSE Finished(req, o, n)]


\* mutant of UsesLocal: the strategy is not looked at
UsesLocal_Always(conf) == conf.strategy \in {"local", "external"}

\* if self.strategy == "local"
UsesLocal(conf) == conf.strategy = "local"

\* a request arrives in task s: dispatch runs without suspending until it
\* awaits call_next or returns
Dispatch(s, req) ==
    /\ reqs[s].pc \in {"idle", "done"}
    /\ IF IsBypassed(req)
       THEN /\ reqs' = [reqs EXCEPT ![s] = Forwarding(req, "bypass", CtxDefault, <<>>, 0, 0)]
            /\ UNCHANGED <<rate_limit, jwks, now, attempts, quiet>>
       ELSE IF UsesLocal(cfg)
       THEN DispatchLocal(s, req)
       ELSE /\ reqs' = [reqs EXCEPT ![s] = Forwarding(req, "external", CtxDefault, <<>>, 0, 0)]
            /\ UNCHANGED <<rate_limit, jwks, now, attempts, quiet>>
    /\ UNCHANGED <<cfg, call>>

\* mutant of CurrentContext: every task reads the context of the first one
CurrentContext_Shared(s) == CHOOSE t \in DOMAIN reqs : \A u \in DOMAIN reqs : t <= u

\* the execution context in which the code of request task s runs: jwt_token
\* and jwt_payload are ContextVars, and each request is served in a task
\* with a context of its own
CurrentContext(s) == s

\* call_next(request): the downstream handler runs, reads the claim context
\* (get_jwt_payload) and answers; dispatch returns its response
CallNext(s) ==
    /\ reqs[s].pc = "call_next"
    /\ reqs' = [reqs EXCEPT ![s] =
                    [@ EXCEPT !.pc = "done", !.result = "forwarded", !.status = 200,
                              !.called = @ + 1,
                              !.seen = reqs[CurrentContext(s)].ctx]]
    /\ UNCHANGED <<cfg, now, rate_limit, jwks, attempts, quiet, call>>

\* time passes
Tick ==
    /\ now < MaxTime
    /\ now' = now + 1
    /\ quiet' = [a \in DOMAIN quiet |-> IF quiet[a] < MaxTicks THEN quiet[a] + 1 ELSE MaxTicks]
    /\ UNCHANGED <<cfg, rate_limit, jwks, reqs, attempts, call>>

(***************************************************************************)
(* The gateway serving one request at a time                               *)
(***************************************************************************)
Auths ==
    {NoAuth, Auth(<<"B", "a", "s", "i", "c", " ", "a", "b", "c">>), Auth(Bearer \o Garbage)}
    \cup {Auth(Bearer \o t.raw) : t \in Tokens}

Clients == {"10.0.0.1"}

\* requests to a protected route, and requests the early returns cover
ProtectedRequests == {Request("GET", "/mcp", c, a) : c \in Clients, a \in Auths}
BypassedRequests ==
    {Request(r[1], r[2], c, a) :
        r \in {<<"OPTIONS", "/mcp">>, <<"GET", "/login">>, <<"GET", "/callback">>,
               <<"GET", "/error">>},
        c \in Clients, a \in {NoAuth, Auth(Bearer \o TokExpired.raw)}}
Requests == ProtectedRequests \cup BypassedRequests

Init == \E conf \in Configs : InitWith(conf, {1})

Next ==
    \/ \E req \in Requests : Dispatch(1, req)
    \/ CallNext(1)
    \/ Tick

Spec == Init /\ [][Next]_vars

(***************************************************************************)
(* The rate limiter under requests from two addresses                      *)
(***************************************************************************)
RateClients == {"10.0.0.1", NoClient}

RateRequests ==
    {Request("GET", "/mcp", c, a) :
        c \in RateClients, a \in {NoAuth, Auth(Bearer \o TokPlain.raw)}}
    \cup {Request("OPTIONS", "/mcp", c, NoAuth) : c \in RateClients}

InitRate == InitWith(PlainConfig("local", TRUE), {1})

NextRate ==
    \/ \E req \in RateRequests : Dispatch(1, req)
    \/ CallNext(1)
    \/ Tick

SpecRate == InitRate /\ [][NextRate]_vars

(***************************************************************************)
(* Vocabulary of the properties                                            *)
(***************************************************************************)
Tasks == DOMAIN reqs

\* this step is dispatch receiving a request in task s (the request is the one
\* task s holds afterwards)
Dispatched(s) == Dispatch(s, reqs'[s].req)

\* this step is the downstream handler of task s running
Called(s) == reqs[s].pc = "call_next" /\ reqs'[s] # reqs[s]

\* the request goes through authentication: neither early return covers it
Protected(req) ==
    req.method # "OPTIONS" /\ req.path \notin {"/login", "/callback", "/error"}

\* the request carries "Authorization: Bearer <token>" with a token whose
\* header PyJWT can read
CarriesToken(req) ==
    /\ req.auth.present
    /\ StartsWith(req.auth.value, Bearer)
    /\ \E t \in Tokens : t.raw = From(req.auth.value, 7)

RawOf(req) == From(req.auth.value, 7)
TokenOf(req) == CHOOSE t \in Tokens : t.raw = RawOf(req)

\* the token of req has a kid that the mapping of cache resolves
KidResolves(req, cache) ==
    /\ CarriesToken(req)
    /\ TokenOf(req).has_kid
    /\ cache.configured
    /\ TokenOf(req).kid \in DOMAIN cache.keys

\* the token of req is signed (RS256) by the key the cache holds for its kid
SignatureValid(req, cache) ==
    LET tok == TokenOf(req)
        key == cache.keys[tok.kid]
    IN  key.kty = "RSA" /\ tok.alg = "RS256" /\ tok.signer = key.mat

\* the token's exp claim is at or before t
ExpiredAt(req, t) ==
    cExp \in DOMAIN TokenOf(req).payload /\ TokenOf(req).payload[cExp].n <= t

\* the token's iss and aud claims are what the configuration asks for
IssuerAudienceValid(req, conf) ==
    LET p == TokenOf(req).payload
    IN  /\ conf.issuer.set => (cIss \in DOMAIN p /\ p[cIss] = PyStr(conf.issuer.v))
        /\ conf.audience.set => (cAud \in DOMAIN p /\ p[cAud] = PyStr(conf.audience.v))
        /\ ~conf.audience.set => cAud \notin DOMAIN p

\* every configured allow-condition evaluates to true on the token's claims
AllowConditionsHold(req, conf) ==
    \A i \in 1..Len(conf.allow_conditions) :
        CheckConditionLogged(conf.allow_conditions[i], TokenOf(req).payload).ok

\* the token of req passes key lookup (in cache), signature verification,
\* the expiry check at time t, the issuer/audience check and every condition
FullyVerified(req, conf, cache, t) ==
    /\ KidResolves(req, cache)
    /\ SignatureValid(req, cache)
    /\ ~ExpiredAt(req, t)
    /\ IssuerAudienceValid(req, conf)
    /\ AllowConditionsHold(req, conf)

\* the address of req is over the rate limit in the counters rl
OverLimit(req, rl) ==
    LET ip == IF req.client = NoClient THEN "unknown" ELSE req.client
    IN  ip \in DOMAIN rl /\ rl[ip] > 10

\* a downstream handler runs once per forwarded request: it leaves the task
\* done with one call made and has read the task's own context
CalledOnce(s) ==
    Called(s) =>
        /\ reqs'[s].pc = "done"
        /\ reqs'[s].called = 1
        /\ reqs'[s].result = "forwarded"
        /\ reqs'[s].req = reqs[s].req
        /\ reqs'[s].seen = reqs[s].ctx

(***************************************************************************)
(* C1  Under the local strategy the claim context a request's downstream   *)
(* handler reads is set only if that request's token passed key lookup,    *)
(* signature verification, the expiry check, the issuer/audience check and *)
(* every allow-condition; a rejected request neither sets the claim        *)
(* context nor appends the forwarded-identity header.                      *)
(***************************************************************************)
C1_ContextOnlyIfVerified ==
    [][\A s \in Tasks :
        /\ (Dispatched(s) /\ cfg.strategy = "local") =>
              /\ reqs'[s].ctx.set => FullyVerified(reqs'[s].req, cfg, jwks', now')
              /\ reqs'[s].result \in {"rejected", "raised"} =>
                    ~reqs'[s].ctx.set /\ reqs'[s].appended = <<>>
        /\ Called(s) => reqs'[s].seen = reqs[s].ctx]_vars

\* a downstream handler has read a claim context set by its own request
C1_Witness ==
    \E s \in Tasks :
        /\ cfg.strategy = "local"
        /\ reqs[s].result = "forwarded"
        /\ reqs[s].seen.set

(***************************************************************************)
(* C2  (as amended) A request under the local strategy that no early       *)
(* return covers, whose address is not over the rate limit, whose token's  *)
(* kid is in the key cache and whose signature, expiry, issuer, audience   *)
(* and allow-conditions all hold, is handed to the downstream handler      *)
(* exactly once, and the claim context read downstream is filter_payload   *)
(* of the verified claims.                                                 *)
(***************************************************************************)
ExpectedContext(req, conf) ==
    [set |-> TRUE, jwt_token |-> RawOf(req),
     jwt_payload |-> FilterPayload(TokenOf(req).payload, conf.exposed_claims)]

C2_ValidTokenForwardedOnce ==
    [][\A s \in Tasks :
        /\ (/\ Dispatched(s)
            /\ cfg.strategy = "local"
            /\ Protected(reqs'[s].req)
            /\ ~OverLimit(reqs'[s].req, rate_limit)
            /\ FullyVerified(reqs'[s].req, cfg, jwks', now')) =>
              /\ reqs'[s].pc = "call_next"
              /\ reqs'[s].called = 0
              /\ reqs'[s].ctx = ExpectedContext(reqs'[s].req, cfg)
        /\ CalledOnce(s)]_vars

\* C2 as stated: without the condition on the rate limit
C2_AsStated ==
    [][\A s \in Tasks :
        /\ (/\ Dispatched(s)
            /\ cfg.strategy = "local"
            /\ Protected(reqs'[s].req)
            /\ FullyVerified(reqs'[s].req, cfg, jwks', now')) =>
              /\ reqs'[s].pc = "call_next"
              /\ reqs'[s].called = 0
              /\ reqs'[s].ctx = ExpectedContext(reqs'[s].req, cfg)
        /\ CalledOnce(s)]_vars

\* a valid token was forwarded under a list policy that drops some of its
\* claims, and the handler has read the filtered claim set
C2_Witness ==
    \E s \in Tasks :
        /\ cfg.strategy = "local"
        /\ reqs[s].result = "forwarded"
        /\ reqs[s].called = 1
        /\ reqs[s].seen.set
        /\ reqs[s].seen.jwt_payload # TokenOf(reqs[s].req).payload
        /\ reqs[s].seen.jwt_payload =
              FilterPayload(TokenOf(reqs[s].req).payload, cfg.exposed_claims)

(***************************************************************************)
(* C3  A token whose kid is not in the key cache after the lookup (and the *)
(* refresh the lookup may have triggered) is answered 401 under the local  *)
(* strategy, and the downstream handler is never called.                   *)
(***************************************************************************)
\* _validate_local gets as far as self.jwks.get_key(kid)
LookupMade(req, conf, rl, cache) ==
    /\ Protected(req)
    /\ conf.strategy = "local"
    /\ ~OverLimit(req, rl)
    /\ CarriesToken(req)
    /\ TokenOf(req).has_kid
    /\ TokenOf(req).kid # ""
    /\ cache.configured

C3_UnknownKidRejected ==
    [][\A s \in Tasks :
        /\ (/\ Dispatched(s)
            /\ LookupMade(reqs'[s].req, cfg, rate_limit, jwks)
            /\ TokenOf(reqs'[s].req).kid \notin DOMAIN jwks'.keys) =>
              /\ reqs'[s].pc = "done"
              /\ reqs'[s].result = "rejected"
              /\ reqs'[s].status = 401
        /\ reqs'[s].result = "rejected" => reqs'[s].called = 0
        /\ Called(s) => reqs[s].result = "pending"]_vars

\* a lookup refreshed the key set and still did not find the kid
C3_Witness ==
    \E s \in Tasks :
        /\ reqs[s].stage = "lookup"
        /\ reqs[s].fetches = 1
        /\ jwks.last_updated > 0
        /\ TokenOf(reqs[s].req).kid \notin DOMAIN jwks.keys
        /\ reqs[s].status = 401

(***************************************************************************)
(* C4  (as amended) Under the local strategy a request that no early       *)
(* return covers and whose token's expiry timestamp is in the past is      *)
(* never handed to the downstream handler and gets no claim context,       *)
(* whether or not the token's signature is valid: the response is 429 when *)
(* the address is over the rate limit and 401 otherwise; no response is    *)
(* produced only when jwt.decode fails on a cached key that is no RSA key. *)
(***************************************************************************)
\* the token's exp claim is before t
ExpiredBefore(req, t) ==
    /\ CarriesToken(req)
    /\ cExp \in DOMAIN TokenOf(req).payload
    /\ TokenOf(req).payload[cExp].n < t

\* the RS256 verification is handed a cached key that is no RSA key
DecodeFaults(req, cache) ==
    /\ KidResolves(req, cache)
    /\ TokenOf(req).kid # ""
    /\ TokenOf(req).alg = "RS256"
    /\ cache.keys[TokenOf(req).kid].kty = "EC"

C5_FetchOnlyWhenStale ==
    [][\A s \in Tasks :
        (/\ Dispatched(s)
         /\ LookupMade(reqs'[s].req, cfg, rate_limit, jwks)
         /\ jwks.last_updated > 0) =>
            /\ now - jwks.last_updated <= jwks.cache_interval =>
                  /\ reqs'[s].fetches = 0
                  /\ jwks' = jwks
            /\ now - jwks.last_updated > jwks.cache_interval =>
                  reqs'[s].fetches = 1]_vars

\* a lookup made exactly cache_interval after the refresh did not fetch
C5_Witness ==
    \E s \in Tasks :
        /\ reqs[s].stage \in {"lookup", "jwk", "verify", "conditions", "propagate"}
        /\ reqs[s].fetches = 0
        /\ ClientIp(reqs[s].req) \in DOMAIN quiet
        /\ quiet[ClientIp(reqs[s].req)] = 0
        /\ jwks.last_updated > 0
        /\ now - jwks.last_updated = jwks.cache_interval

(***************************************************************************)
(* C6  Counting the validation attempts of one address from an empty       *)
(* counter map, attempts 1 to 10 pass the rate check and attempt 11 is     *)
(* answered 429.                                                           *)
(***************************************************************************)
C6_EleventhAttemptRejected ==
    \A s \in Tasks :
        /\ reqs[s].attempt \in 1..10 => reqs[s].status # 429
        /\ reqs[s].attempt = 11 => reqs[s].status = 429

(***************************************************************************)
(* C7  A rate-limit rejection is transient: an address that was answered   *)
(* 429 and then sends nothing for a while (here: for as long as the clock  *)
(* of the model runs) passes the rate check with its next attempt.         *)
(***************************************************************************)
C7_RateLimitClears ==
    [][\A s \in Tasks :
        (/\ Dispatched(s)
         /\ cfg.strategy = "local"
         /\ Protected(reqs'[s].req)
         /\ reqs[s].status = 429
         /\ ClientIp(reqs[s].req) = ClientIp(reqs'[s].req)
         /\ ClientIp(reqs'[s].req) \in DOMAIN quiet
         /\ quiet[ClientIp(reqs'[s].req)] >= MaxTicks) =>
            reqs'[s].status # 429]_vars

(***************************************************************************)
(* C8  Once the counter of an address exceeds 10, every later request from *)
(* it that no early return covers is answered 429 under the local          *)
(* strategy whatever credential it carries, before credential extraction,  *)
(* key lookup or any key-set fetch, and the downstream handler is not      *)
(* called.                                                                 *)
(***************************************************************************)
C8_OverLimitAlwaysRejected ==
    [][/\ \A s \in Tasks :
            (/\ Dispatched(s)
             /\ cfg.strategy = "local"
             /\ Protected(reqs'[s].req)
             /\ OverLimit(reqs'[s].req, rate_limit)) =>
                /\ reqs'[s].pc = "done"
                /\ reqs'[s].result = "rejected"
                /\ reqs'[s].status = 429
                /\ reqs'[s].called = 0
                /\ reqs'[s].fetches = 0
                /\ jwks' = jwks
                /\ now' = now
                /\ rate_limit' = rate_limit
       /\ \A ip \in DOMAIN rate_limit :
            rate_limit[ip] > 10 => (ip \in DOMAIN rate_limit' /\ rate_limit'[ip] > 10)]_vars

\* a request without an Authorization header was answered 429 while the key
\* cache was stale
C8_Witness ==
    \E s \in Tasks :
        /\ reqs[s].status = 429
        /\ ~reqs[s].req.auth.present
        /\ OverLimit(reqs[s].req, rate_limit)
        /\ jwks.configured
        /\ now - jwks.last_updated > jwks.cache_interval

(***************************************************************************)
(* C9  A request whose method is OPTIONS or whose path is exactly /login,  *)
(* /callback or /error is handed to the downstream handler exactly once    *)
(* without authentication under either strategy, and leaves the rate       *)
(* counters, the key cache, the request headers and the claim context      *)
(* unchanged.                                                              *)
(***************************************************************************)
C9_BypassedForwardedUntouched ==
    [][\A s \in Tasks :
        /\ (Dispatched(s) /\ ~Protected(reqs'[s].req)) =>
              /\ reqs'[s].pc = "call_next"
              /\ reqs'[s].called = 0
              /\ reqs'[s].appended = <<>>
              /\ ~reqs'[s].ctx.set
              /\ reqs'[s].fetches = 0
              /\ rate_limit' = rate_limit
              /\ jwks' = jwks
        /\ CalledOnce(s)]_vars

\* under the local strategy a bypassed request carrying an expired token was
\* served by the downstream handler while its address was over the rate limit
C9_Witness ==
    \E s \in Tasks :
        /\ cfg.strategy = "local"
        /\ ~Protected(reqs[s].req)
        /\ reqs[s].req.path = "/error"
        /\ reqs[s].req.auth.present
        /\ OverLimit(reqs[s].req, rate_limit)
        /\ reqs[s].result = "forwarded"
        /\ reqs[s].called = 1

(***************************************************************************)
(* C10  Under the external strategy every request is handed to the         *)
(* downstream handler exactly once with no local verification: no          *)
(* Authorization header is needed, no key-set fetch is made, no rate       *)
(* counter changes and the claim context is never set.                     *)
(***************************************************************************)
C10_ExternalForwardsUnverified ==
    [][cfg.strategy = "external" =>
        /\ rate_limit' = rate_limit
        /\ jwks' = jwks
        /\ \A s \in Tasks :
            /\ Dispatched(s) =>
                  /\ reqs'[s].pc = "call_next"
                  /\ reqs'[s].called = 0
                  /\ reqs'[s].fetches = 0
                  /\ reqs'[s].appended = <<>>
            /\ ~reqs'[s].ctx.set
            /\ ~reqs'[s].seen.set
            /\ CalledOnce(s)]_vars

\* under the external strategy, with a key set configured, a request to a
\* protected route without Authorization header was served downstream
C10_Witness ==
    \E s \in Tasks :
        /\ cfg.strategy = "external"
        /\ cfg.jwks_uri_set
        /\ Protected(reqs[s].req)
        /\ ~reqs[s].req.auth.present
        /\ reqs[s].result = "forwarded"
        /\ reqs[s].called = 1
        /\ jwks.last_updated = 0

(***************************************************************************)
(* C11  Under the local strategy with the rate limit not exceeded, every   *)
(* request whose credential fails (no Authorization header, no Bearer      *)
(* prefix, undecodable header, no kid, no key set configured, kid not      *)
(* found, unusable JWK, expired token, signature/issuer/audience failure,  *)
(* failing allow-condition) gets a response with status 401 and is not     *)
(* handed downstream; every rejection the middleware produces has status   *)
(* 401 or 429.                                                             *)
(***************************************************************************)
C11_EveryFailureIs401 ==
    [][\A s \in Tasks :
        /\ (/\ Dispatched(s)
            /\ cfg.strategy = "local"
            /\ Protected(reqs'[s].req)
            /\ ~OverLimit(reqs'[s].req, rate_limit)
            /\ ~FullyVerified(reqs'[s].req, cfg, jwks', now')) =>
              /\ reqs'[s].pc = "done"
              /\ reqs'[s].result = "rejected"
              /\ reqs'[s].status = 401
              /\ reqs'[s].called = 0
        /\ reqs'[s].result = "rejected" => reqs'[s].status \in {401, 429}]_vars

(***************************************************************************)
(* C12  A token whose unverified header carries no kid is answered 401     *)
(* with a detail that contains the text 'JWT missing kid'.                 *)
(***************************************************************************)
\* the text of each detail _validate_local puts into an HTTPException
DetailText(detail) ==
    CASE detail = "Rate limit exceeded" -> <<"R", "a", "t", "e", " ", "l", "i", "m", "i", "t", " ", "e", "x", "c", "e", "e", "d", "e", "d">>
      [] detail = "Invalid Authorization header" -> <<"I", "n", "v", "a", "l", "i", "d", " ", "A", "u", "t", "h", "o", "r", "i", "z", "a", "t", "i", "o", "n", " ", "h", "e", "a", "d", "e", "r">>
      [] detail = "Invalid JWT header: DecodeError" -> <<"I", "n", "v", "a", "l", "i", "d", " ", "J", "W", "T", " ", "h", "e", "a", "d", "e", "r", ":", " ", "D", "e", "c", "o", "d", "e", "E", "r", "r", "o", "r">>
      [] detail = "Invalid JWT header" -> <<"I", "n", "v", "a", "l", "i", "d", " ", "J", "W", "T", " ", "h", "e", "a", "d", "e", "r">>
      [] detail = "JWKS not configured" -> <<"J", "W", "K", "S", " ", "n", "o", "t", " ", "c", "o", "n", "f", "i", "g", "u", "r", "e", "d">>
      [] detail = "Key not found in JWKS" -> <<"K", "e", "y", " ", "n", "o", "t", " ", "f", "o", "u", "n", "d", " ", "i", "n", " ", "J", "W", "K", "S">>
      [] detail = "Invalid JWK" -> <<"I", "n", "v", "a", "l", "i", "d", " ", "J", "W", "K">>
      [] detail = "JWT expired" -> <<"J", "W", "T", " ", "e", "x", "p", "i", "r", "e", "d">>
      [] detail = "Invalid JWT" -> <<"I", "n", "v", "a", "l", "i", "d", " ", "J", "W", "T">>
      [] detail = "JWT does not meet conditions" -> <<"J", "W", "T", " ", "d", "o", "e", "s", " ", "n", "o", "t", " ", "m", "e", "e", "t", " ", "c", "o", "n", "d", "i", "t", "i", "o", "n", "s">>
      [] OTHER -> <<>>

C12_MissingKidDetail ==
    \A s \in Tasks :
        (/\ cfg.strategy = "local"
         /\ Protected(reqs[s].req)
         /\ CarriesToken(reqs[s].req)
         /\ ~TokenOf(reqs[s].req).has_kid
         /\ reqs[s].pc = "done"
         /\ reqs[s].status # 429) =>
            /\ reqs[s].result = "rejected"
            /\ reqs[s].status = 401
            /\ Contains(DetailText(reqs[s].detail), <<"J", "W", "T", " ", "m", "i", "s", "s", "i", "n", "g", " ", "k", "i", "d">>)

(***************************************************************************)
(* C13  No failure during verification leaves dispatch as an uncaught      *)
(* error: every request that is not handed downstream gets a response, and *)
(* a failure of verification is answered with status 401 or 500.           *)
(***************************************************************************)
C13_NoUncaughtError ==
    \A s \in Tasks :
        reqs[s].pc = "done" =>
            /\ reqs[s].result \in {"forwarded", "rejected"}
            /\ (reqs[s].result = "rejected" /\ reqs[s].stage # "rate") =>
                  reqs[s].status \in {401, 500}

(***************************************************************************)
(* JWKSCache on its own: get_key called directly                           *)
(***************************************************************************)
\* a key set document without a "keys" member (or with an empty array)
DocEmpty == <<>>

\* the answers of the key-set endpoint to the cache on its own
CacheFetchOutcomes ==
    FetchOutcomes \cup [ok : {TRUE}, doc : {DocEmpty}, delay : 0..MaxLatency]

CacheKids == {"k1", "k2", "k9"}

\* history: the number of fetches that have failed in a row, this call's
\* included (0, 1, or 2 for two and more)
FailedInARow(fetch, fetches) ==
    IF fetches = 1 /\ ~fetch.ok
    THEN (IF call.op # "none" /\ call.failed >= 1 THEN 2 ELSE 1)
    ELSE 0

\* the record of one lookup: op, the kid asked for, the network's answer,
\* the cache before and after, the time of the call and what it returned
CacheCall(op, kid, fetch, before, after, at, found, key, fetches) ==
    [op |-> op, kid |-> kid, fetch |-> fetch, before |-> before, after |-> after,
     at |-> at, found |-> found, key |-> key, fetches |-> fetches,
     failed |-> FailedInARow(fetch, fetches)]

\* cache.get_key(kid)
GetKeyCall(kid) ==
    \E fetch \in (IF IsStale(jwks, now) THEN CacheFetchOutcomes
                  ELSE {CHOOSE f \in CacheFetchOutcomes : TRUE}) :
        LET g == GetKey(jwks, kid, now, fetch)
        IN  /\ jwks.configured
            /\ g.now <= MaxTime
            /\ jwks' = g.cache
            /\ now' = g.now
            /\ call' = CacheCall("get_key", kid, fetch, jwks, g.cache, now,
                                 g.found, g.key, g.fetches)
            /\ UNCHANGED <<cfg, rate_limit, reqs, attempts, quiet>>

InitCache == InitWith(PlainConfig("local", TRUE), {})

NextCache ==
    \/ \E kid \in CacheKids : GetKeyCall(kid)
    \/ Tick

SpecCache == InitCache /\ [][NextCache]_vars

\* the last direct call was a lookup that fetched the key set
Fetched == call.op = "get_key" /\ call.fetches = 1

\* this step is a direct call of get_key
GetKeyStep == call' # call /\ call'.op = "get_key"

(***************************************************************************)
(* C14  When the key-set fetch fails, the cached mapping and last_updated  *)
(* are exactly what they were before the fetch, and get_key answers from   *)
(* the old mapping: the key it holds for the kid, or None.                 *)
(***************************************************************************)
C14_FailedFetchKeepsCache ==
    (Fetched /\ ~call.fetch.ok) =>
        /\ call.after.keys = call.before.keys
        /\ call.after.last_updated = call.before.last_updated
        /\ call.found = (call.kid \in DOMAIN call.before.keys)
        /\ call.found => call.key = call.before.keys[call.kid]
        /\ ~call.found => call.key = NoKey

\* a lookup on a stale, non-empty mapping whose fetch failed returned None
C14_Witness ==
    /\ Fetched
    /\ ~call.fetch.ok
    /\ call.before.last_updated > 0
    /\ DOMAIN call.before.keys # {}
    /\ ~call.found
    /\ jwks = call.before

(***************************************************************************)
(* C15  last_updated changes only through a successful fetch; after a      *)
(* failed refresh of a stale cache the next lookup, whenever it comes,     *)
(* fetches again.                                                          *)
(***************************************************************************)
C15_OnlySuccessStamps ==
    [][/\ jwks'.last_updated # jwks.last_updated =>
              /\ call' # call
              /\ call'.fetches = 1
              /\ call'.fetch.ok
              /\ jwks'.last_updated = now'
       /\ (/\ Fetched
           /\ ~call.fetch.ok
           /\ call.at - call.before.last_updated > call.before.cache_interval
           /\ GetKeyStep) =>
              call'.fetches = 1]_vars

\* a lookup fetched again after the fetch before it had failed, on a cache
\* that had been refreshed successfully once
C15_Witness ==
    /\ Fetched
    /\ call.failed = 2
    /\ call.before.last_updated > 0

(***************************************************************************)
(* C16  After a successful refresh the mapping holds exactly the kids the  *)
(* fetched keys array carries, each mapped to the entry that carries it    *)
(* (the last one, should several carry the same kid); entries without kid  *)
(* are skipped and a kid cached before but absent from the document no     *)
(* longer resolves.                                                        *)
(***************************************************************************)
C16_RefreshReplacesMapping ==
    (Fetched /\ call.fetch.ok) =>
        LET doc == call.fetch.doc
            m == call.after.keys
            carries(i, k) == doc[i]["has_kid"] /\ doc[i]["kid"] = k
        IN  /\ DOMAIN m = {doc[i]["kid"] : i \in {j \in 1..Len(doc) : doc[j]["has_kid"]}}
            /\ \A k \in DOMAIN m :
                  \E i \in 1..Len(doc) :
                      /\ carries(i, k)
                      /\ m[k] = doc[i]
                      /\ \A j \in (i + 1)..Len(doc) : ~carries(j, k)
            /\ \A k \in DOMAIN call.before.keys :
                  (\A i \in 1..Len(doc) : ~carries(i, k)) => k \notin DOMAIN m
            /\ call.found = (call.kid \in DOMAIN m)

\* a lookup of a cached kid refreshed the key set from a document that does
\* not carry the kid, and returned None
C16_Witness ==
    /\ Fetched
    /\ call.fetch.ok
    /\ call.kid \in DOMAIN call.before.keys
    /\ call.kid \notin DOMAIN call.after.keys
    /\ ~call.found

(***************************************************************************)
(* The allow-list guard: JWTValidationMiddleware._is_uri_allowed and       *)
(* HandlersManager._is_uri_allowed                                         *)
(***************************************************************************)
\* the characters urllib accepts in a scheme (lower case and digits suffice
\* for the URIs of the model)
SchemeChars ==
    {"a", "b", "c", "d", "e", "f", "g", "h", "i", "j", "k", "l", "m", "n", "o",
     "p", "q", "r", "s", "t", "u", "v", "w", "x", "y", "z",
     "0", "1", "2", "3", "4", "5", "6", "7", "8", "9", "+", "-", "."}
SchemeStart == SchemeChars \ {"0", "1", "2", "3", "4", "5", "6", "7", "8", "9", "+", "-", "."}

\* urlsplit: the url with its scheme (and the colon) removed, if it has one
AfterScheme(url) ==
    LET i == Find(url, <<":">>)
    IN  IF i > 0 /\ url[1] \in SchemeStart /\ \A j \in 1..i : url[j] \in SchemeChars
        THEN From(url, i + 1)
        ELSE url

\* urlparse(uri).netloc: what follows "//" up to the first of "/", "?", "#"
Netloc(uri) ==
    LET url == AfterScheme(uri)
        ends == {i \in 3..Len(url) : url[i] \in {"/", "?", "#"}}
        delim == IF ends = {} THEN Len(url) + 1
                 ELSE CHOOSE i \in ends : \A j \in ends : i <= j
    IN  IF StartsWith(url, <<"/", "/">>) THEN SubSeq(url, 3, delim - 1) ELSE <<>>

\* any(domain.endswith(allowed) for allowed in whitelist)
AnySuffix(domain, whitelist) ==
    \E i \in 1..Len(whitelist) : EndsWith(domain, whitelist[i])

\* JWTValidationMiddleware._is_uri_allowed(uri), with self.whitelist_domains
IsUriAllowed(uri, whitelist_domains) ==
    IF Len(whitelist_domains) = 0 THEN TRUE
    ELSE AnySuffix(Netloc(uri), whitelist_domains)

\* HandlersManager._is_uri_allowed(uri), with config.oauth_whitelist_domains
HandlersIsUriAllowed(uri, config) ==
    IF Len(config.oauth_whitelist_domains) = 0 THEN TRUE
    ELSE AnySuffix(Netloc(uri), config.oauth_whitelist_domains)

\* the URIs and allow-lists the guard is tried on
UriHosts == {<<"a", ".", "i", "o">>, <<"x", ".", "a", ".", "i", "o">>, <<"b", ".", "i", "o">>, <<"x", "a", ".", "i", "o">>}
UriUsers == {<<>>, <<"u", "@">>, <<"a", ".", "i", "o", "@">>}
UriPorts == {<<>>, <<":", "8">>}
UriPaths == {<<>>, <<"/", "k">>, <<"/", "a", ".", "i", "o">>, <<"?", "q", "=", "a", ".", "i", "o">>}
Uris ==
    {<<"h", "t", "t", "p", "s", ":", "/", "/">> \o u \o h \o p \o q :
        u \in UriUsers, h \in UriHosts, p \in UriPorts, q \in UriPaths}
    \cup {<<"a", ".", "i", "o", "/", "k">>, <<"/", "/", "a", ".", "i", "o">>, <<"h", "t", "t", "p", "s", ":", "a", ".", "i", "o">>, <<>>}
Whitelists ==
    {<<>>, <<<<"a", ".", "i", "o">>>>, <<<<".", "a", ".", "i", "o">>>>, <<<<"c", ".", "i", "o">>, <<"b", ".", "i", "o">>>>}

\* the guard is about to be called with uri and whitelist
GuardInput(uri, whitelist) ==
    [op |-> "input", uri |-> uri, whitelist |-> whitelist, allowed |-> FALSE]

\* middleware._is_uri_allowed(uri)
MiddlewareGuardCall ==
    /\ call.op = "input"
    /\ call' = [call EXCEPT !.op = "JWTValidationMiddleware._is_uri_allowed",
                            !.allowed = IsUriAllowed(call.uri, call.whitelist)]
    /\ UNCHANGED <<cfg, now, rate_limit, jwks, reqs, attempts, quiet>>

\* manager._is_uri_allowed(uri)
HandlersGuardCall ==
    /\ call.op = "input"
    /\ call' = [call EXCEPT !.op = "HandlersManager._is_uri_allowed",
                            !.allowed = HandlersIsUriAllowed(call.uri,
                                [oauth_whitelist_domains |-> call.whitelist])]
    /\ UNCHANGED <<cfg, now, rate_limit, jwks, reqs, attempts, quiet>>

InitGuard ==
    /\ cfg = PlainConfig("external", FALSE)
    /\ now = StartTime
    /\ rate_limit = [a \in {} |-> 0]
    /\ jwks = NoJwks
    /\ reqs = [s \in {} |-> IdleTask]
    /\ attempts = [a \in {} |-> 0]
    /\ quiet = [a \in {} |-> 0]
    /\ \E uri \in Uris, whitelist \in Whitelists : call = GuardInput(uri, whitelist)

NextGuard == MiddlewareGuardCall \/ HandlersGuardCall

SpecGuard == InitGuard /\ [][NextGuard]_vars

\* the host component of a URI (RFC 3986): the authority without its
\* userinfo and its port
RECURSIVE AfterLast(_, _)
AfterLast(s, c) ==
    IF Find(s, <<c>>) = -1 THEN s ELSE AfterLast(From(s, Find(s, <<c>>) + 1), c)

HostOf(uri) ==
    LET hostinfo == AfterLast(Netloc(uri), "@")
        i == Find(hostinfo, <<":">>)
    IN  IF i = -1 THEN hostinfo ELSE Upto(hostinfo, i)

(***************************************************************************)
(* C17  Both guards answer true for every URI when the allow-list is       *)
(* empty, and otherwise true if and only if the URI's host component ends  *)
(* with one of the configured suffixes.                                    *)
(***************************************************************************)
C17_AllowedIffHostSuffix ==
    call.op \in {"JWTValidationMiddleware._is_uri_allowed",
                 "HandlersManager._is_uri_allowed"} =>
        call.allowed =
            (\/ call.whitelist = <<>>
             \/ \E i \in 1..Len(call.whitelist) :
                    EndsWith(HostOf(call.uri), call.whitelist[i]))

(***************************************************************************)
(* Construction of the middleware: JWTValidationMiddleware.__init__        *)
(***************************************************************************)
\* a configuration with the JWKS URI and the allow-list spelled out; an
\* empty jwks_uri stands for None
ConfigAt(strategy, jwks_uri, whitelist_domains) ==
    [strategy |-> strategy, forwarded_header |-> "X-Validated-Jwt",
     jwks_uri_set |-> jwks_uri # <<>>, cache_interval |-> CacheInterval,
     allow_conditions |-> <<>>, issuer |-> Unset, audience |-> Unset,
     exposed_claims |-> ExposeAll,
     jwks_uri |-> jwks_uri, whitelist_domains |-> whitelist_domains]

\* mutant of NewMiddleware: the guard is not consulted
NewMiddleware_NoGuard(conf) ==
    [raised |-> FALSE, jwks |-> InitJwks(conf)]

\* JWTValidationMiddleware(app, strategy, jwks_uri=..., whitelist_domains=...):
\* raises ValueError, or leaves a middleware with this key cache
NewMiddleware(conf) ==
    IF /\ conf.strategy = "local"
       /\ conf.jwks_uri_set
       /\ ~IsUriAllowed(conf.jwks_uri, conf.whitelist_domains)
    THEN [raised |-> TRUE, jwks |-> NoJwks]
    ELSE [raised |-> FALSE, jwks |-> InitJwks(conf)]

\* the constructor runs
Construct ==
    /\ call.op = "input"
    /\ LET m == NewMiddleware(cfg)
       IN  /\ call' = [op |-> "__init__", raised |-> m.raised]
           /\ jwks' = m.jwks
    /\ UNCHANGED <<cfg, now, rate_limit, reqs, attempts, quiet>>

\* a middleware exists: the constructor has returned
Constructed == call.op = "__init__" /\ ~call.raised

ConstructUris == {<<>>, <<"h", "t", "t", "p", "s", ":", "/", "/", "a", ".", "i", "o", "/", "k">>, <<"h", "t", "t", "p", "s", ":", "/", "/", "b", ".", "i", "o", "/", "k">>, <<"h", "t", "t", "p", "s", ":", "/", "/", "a", ".", "i", "o", ":", "8", "/", "k">>}
ConstructWhitelists == {<<>>, <<<<"a", ".", "i", "o">>>>}
ConstructRequests ==
    {Request("GET", "/mcp", "10.0.0.1", a) :
        a \in {NoAuth, Auth(Bearer \o TokPlain.raw), Auth(Bearer \o TokUnknownKid.raw)}}
    \cup {Request("OPTIONS", "/mcp", "10.0.0.1", NoAuth)}

InitConstruct ==
    /\ \E strategy \in {"local", "external"}, uri \in ConstructUris,
          whitelist \in ConstructWhitelists :
            cfg = ConfigAt(strategy, uri, whitelist)
    /\ now = StartTime
    /\ rate_limit = [a \in {} |-> 0]
    /\ jwks = NoJwks
    /\ reqs = [s \in {1} |-> IdleTask]
    /\ attempts = [a \in {} |-> 0]
    /\ quiet = [a \in {} |-> 0]
    /\ call = [op |-> "input"]

NextConstruct ==
    \/ Construct
    \/ \E req \in ConstructRequests : Constructed /\ Dispatch(1, req)
    \/ Constructed /\ CallNext(1)
    \/ Tick

SpecConstruct == InitConstruct /\ [][NextConstruct]_vars

(***************************************************************************)
(* C18  Constructing the middleware with strategy local and a JWKS URI the *)
(* guard rejects raises an error: no middleware exists, no request is ever *)
(* dispatched and the key set is never fetched from that URI.              *)
(***************************************************************************)
C18_RejectedUriNeverFetched ==
    (/\ cfg.strategy = "local"
     /\ cfg.jwks_uri # <<>>
     /\ ~IsUriAllowed(cfg.jwks_uri, cfg.whitelist_domains)) =>
        /\ call.op = "__init__" => call.raised
        /\ ~jwks.configured
        /\ jwks.last_updated = 0
        /\ \A s \in Tasks : reqs[s].pc = "idle" /\ reqs[s].fetches = 0

\* the constructor was given a URI outside a non-empty allow-list under the
\* local strategy and raised
C18_Witness ==
    /\ cfg.strategy = "local"
    /\ cfg.jwks_uri # <<>>
    /\ cfg.whitelist_domains # <<>>
    /\ ~IsUriAllowed(cfg.jwks_uri, cfg.whitelist_domains)
    /\ call.op = "__init__"
    /\ call.raised

(***************************************************************************)
(* OAuth metadata handlers: mcp_app/handlers/handlers.py                   *)
(***************************************************************************)
\* config.oauth_authorization_server / config.oauth_protected_resource:
\* None (configured FALSE) or the section
NoSection ==
    [configured |-> FALSE, enabled |-> FALSE, issuer_uri |-> <<>>,
     auth_servers |-> <<>>, jwks_uri |-> <<>>]
AuthorizationServerSection(enabled, issuer_uri) ==
    [configured |-> TRUE, enabled |-> enabled, issuer_uri |-> issuer_uri,
     auth_servers |-> <<>>, jwks_uri |-> <<>>]
ProtectedResourceSection(enabled, auth_servers, jwks_uri) ==
    [configured |-> TRUE, enabled |-> enabled, issuer_uri |-> <<>>,
     auth_servers |-> auth_servers, jwks_uri |-> jwks_uri]

WellKnownOpenid == <<"/", ".", "w", "e", "l", "l", "-", "k", "n", "o", "w", "n", "/", "o", "p", "e", "n", "i", "d", "-", "c", "o", "n", "f", "i", "g", "u", "r", "a", "t", "i", "o", "n">>

\* how a handler ends: the status of the response (200 for a returned dict),
\* the detail of the HTTPException behind a 4xx/5xx, raised for an exception
\* that is no HTTPException, the URIs handed to _is_uri_allowed in order, and
\* the URLs requested
Handled(status, detail, raised, consulted, fetched) ==
    [status |-> status, detail |-> detail, raised |-> raised,
     consulted |-> consulted, fetched |-> fetched]

\* what client.get / raise_for_status / json may do
HttpAnswers == {"ok", "http_error", "bad_body"}

\* handle_oauth_authorization_server()
HandleOauthAuthorizationServer(config, answer) ==
    LET section == config.oauth_authorization_server
        issuer_uri == section.issuer_uri
        remote_url == issuer_uri \o WellKnownOpenid
    IN  IF ~section.configured \/ ~section.enabled
        THEN Handled(404, "OAuth authorization server not enabled", FALSE, <<>>, <<>>)
        ELSE IF ~HandlersIsUriAllowed(issuer_uri, config)
        THEN Handled(403, "Issuer URI not in allowed domains", FALSE,
                     <<issuer_uri>>, <<>>)
        ELSE IF answer = "ok"
        THEN Handled(200, "", FALSE, <<issuer_uri>>, <<remote_url>>)
        ELSE IF answer = "http_error"
        THEN Handled(500, "Error fetching OpenID config", FALSE,
                     <<issuer_uri>>, <<remote_url>>)
        ELSE Handled(0, "ValueError", TRUE, <<issuer_uri>>, <<remote_url>>)

\* the index of the first auth server the guard rejects, 0 when there is none
FirstRejected(auth_servers, config) ==
    LET bad == {i \in 1..Len(auth_servers) : ~HandlersIsUriAllowed(auth_servers[i], config)}
    IN  IF bad = {} THEN 0 ELSE CHOOSE i \in bad : \A j \in bad : i <= j


\* mutant of HandleOauthProtectedResources: the JWKS URI is not checked
HandleOauthProtectedResources_ServersOnly(config) ==
    LET pr == config.oauth_protected_resource
        r == FirstRejected(pr.auth_servers, config)
    IN  IF ~pr.configured \/ ~pr.enabled
        THEN Handled(404, "OAuth protected resource not enabled", FALSE, <<>>, <<>>)
        ELSE IF r # 0
        THEN Handled(403, "Auth server URI not allowed", FALSE,
                     SubSeq(pr.auth_servers, 1, r), <<>>)
        ELSE Handled(200, "", FALSE, pr.auth_servers, <<>>)

\* handle_oauth_protected_resources()
HandleOauthProtectedResources(config) ==
    LET pr == config.oauth_protected_resource
        r == FirstRejected(pr.auth_servers, config)
    IN  IF ~pr.configured \/ ~pr.enabled
        THEN Handled(404, "OAuth protected resource not enabled", FALSE, <<>>, <<>>)
        ELSE IF r # 0
        THEN Handled(403, "Auth server URI not allowed", FALSE,
                     SubSeq(pr.auth_servers, 1, r), <<>>)
        ELSE IF ~HandlersIsUriAllowed(pr.jwks_uri, config)
        THEN Handled(403, "JWKS URI not allowed", FALSE,
                     Append(pr.auth_servers, pr.jwks_uri), <<>>)
        ELSE Handled(200, "", FALSE, Append(pr.auth_servers, pr.jwks_uri), <<>>)

\* the configurations the handlers are tried on
UriA == <<"h", "t", "t", "p", "s", ":", "/", "/", "a", ".", "i", "o">>
UriXA == <<"h", "t", "t", "p", "s", ":", "/", "/", "x", ".", "a", ".", "i", "o", "/", "k">>
UriB == <<"h", "t", "t", "p", "s", ":", "/", "/", "b", ".", "i", "o">>
HandlerSections ==
    {NoSection}
    \cup {AuthorizationServerSection(e, u) : e \in BOOLEAN, u \in {UriA, UriB}}
ResourceSections ==
    {NoSection}
    \cup {ProtectedResourceSection(e, a, j) :
            e \in BOOLEAN,
            a \in {<<>>, <<UriA>>, <<UriB>>, <<UriA, UriB>>, <<UriXA, UriA>>},
            j \in {UriXA, UriB}}
HandlerConfigs ==
    [oauth_authorization_server : HandlerSections,
     oauth_protected_resource : ResourceSections,
     oauth_whitelist_domains : {<<>>, <<<<"a", ".", "i", "o">>>>}]

\* GET /.well-known/oauth-authorization-server
AuthorizationServerCall ==
    /\ call.op = "input"
    /\ \E answer \in HttpAnswers :
        call' = [op |-> "handle_oauth_authorization_server", config |-> call.config,
                 out |-> HandleOauthAuthorizationServer(call.config, answer)]
    /\ UNCHANGED <<cfg, now, rate_limit, jwks, reqs, attempts, quiet>>

\* GET /.well-known/oauth-protected-resource
ProtectedResourcesCall ==
    /\ call.op = "input"
    /\ call' = [op |-> "handle_oauth_protected_resources", config |-> call.config,
                out |-> HandleOauthProtectedResources(call.config)]
    /\ UNCHANGED <<cfg, now, rate_limit, jwks, reqs, attempts, quiet>>

InitHandlers ==
    /\ cfg = PlainConfig("external", FALSE)
    /\ now = StartTime
    /\ rate_limit = [a \in {} |-> 0]
    /\ jwks = NoJwks
    /\ reqs = [s \in {} |-> IdleTask]
    /\ attempts = [a \in {} |-> 0]
    /\ quiet = [a \in {} |-> 0]
    /\ \E config \in HandlerConfigs : call = [op |-> "input", config |-> config]

NextHandlers == AuthorizationServerCall \/ ProtectedResourcesCall

SpecHandlers == InitHandlers /\ [][NextHandlers]_vars

(***************************************************************************)
(* C19  A disabled or unconfigured endpoint answers 404 without consulting *)
(* the allow-list; handle_oauth_authorization_server answers 403 and       *)
(* requests nothing when the guard rejects the issuer URI;                 *)
(* handle_oauth_protected_resources answers 403 when the guard rejects any *)
(* configured auth server URI or the JWKS URI, and requests nothing.       *)
(***************************************************************************)
C19_GuardBeforeOutbound ==
    /\ call.op = "handle_oauth_authorization_server" =>
          LET section == call.config.oauth_authorization_server
          IN  /\ (~section.configured \/ ~section.enabled) =>
                    /\ call.out.status = 404
                    /\ call.out.consulted = <<>>
                    /\ call.out.fetched = <<>>
              /\ (/\ section.configured
                  /\ section.enabled
                  /\ ~HandlersIsUriAllowed(section.issuer_uri, call.config)) =>
                    /\ call.out.status = 403
                    /\ call.out.fetched = <<>>
    /\ call.op = "handle_oauth_protected_resources" =>
          LET pr == call.config.oauth_protected_resource
          IN  /\ (~pr.configured \/ ~pr.enabled) =>
                    /\ call.out.status = 404
                    /\ call.out.consulted = <<>>
              /\ (/\ pr.configured
                  /\ pr.enabled
                  /\ \/ \E i \in 1..Len(pr.auth_servers) :
                            ~HandlersIsUriAllowed(pr.auth_servers[i], call.config)
                     \/ ~HandlersIsUriAllowed(pr.jwks_uri, call.config)) =>
                    call.out.status = 403
              /\ call.out.fetched = <<>>

\* every auth server is allow-listed, the JWKS URI is not, and the protected
\* resource handler answered 403
C19_Witness ==
    /\ call.op = "handle_oauth_protected_resources"
    /\ call.config.oauth_protected_resource.enabled
    /\ call.config.oauth_protected_resource.auth_servers # <<>>
    /\ \A i \in 1..Len(call.config.oauth_protected_resource.auth_servers) :
          HandlersIsUriAllowed(call.config.oauth_protected_resource.auth_servers[i],
                               call.config)
    /\ ~HandlersIsUriAllowed(call.config.oauth_protected_resource.jwks_uri, call.config)
    /\ call.out.status = 403

(***************************************************************************)
(* The condition evaluator on its own: _check_condition(condition, payload) *)
(***************************************************************************)
DoubleQuote == <<"\"">>

\* payload.<claim> == "<literal>"
EqualityExpr(claim, literal) ==
    PayloadDot \o claim \o EqOp \o DoubleQuote \o literal \o DoubleQuote

\* payload.<claim>.endswith("<suffix>")
EndswithExpr(claim, suffix) ==
    PayloadDot \o claim \o EndsOp \o DoubleQuote \o suffix \o DoubleQuote \o CloseParen

\* payload_['<claim>'] == '<literal>'
SubscriptExpr(claim, literal) ==
    PayloadSub \o claim \o SubClose \o EqOp \o <<"'">> \o literal \o <<"'">>

\* claim names, literals and claim sets the evaluator is tried on
CondClaims == {<<"s">>, <<"i", "s", "s">>}
CondLiterals == {<<"a">>, <<"a", "b">>, <<"'", "a", "'">>, <<"a", " ">>, <<"a", " ", "=", "=", " ", "b">>, <<>>}
CondSuffixes == {<<"a">>, <<"a", "b">>, <<"'", "a", "'">>, <<"a", " ", "=", "=", " ", "b">>, <<>>}
SubLiterals == {<<"a">>, <<"a", "b">>, <<"\"", "a", "\"">>, <<"a", " ">>, <<"a", " ", "=", "=", " ", "b">>, <<>>}
CondValues ==
    {PyStr(l) : l \in CondLiterals \cup SubLiterals \cup {<<"b", "a">>}}
    \cup {PyInt(1), PyList(<<<<"a">>>>)}
CondPayloads ==
    {EmptyDict}
    \cup {Dict({<<c, v>>}) : c \in CondClaims, v \in CondValues}

\* expressions of neither documented shape: some the code evaluates all the
\* same, the others it refuses
LooseExprs ==
    {<<"p", "a", "y", "l", "o", "a", "d", ".", "s", " ", "=", "=", " ", "a">>,
     <<"p", "a", "y", "l", "o", "a", "d", ".", "s", " ", "=", "=", " ", "'", "a", "'">>,
     <<" ", "p", "a", "y", "l", "o", "a", "d", ".", "s", " ", " ", "=", "=", " ", " ", "\"", "a", "\"", " ">>,
     <<"p", "a", "y", "l", "o", "a", "d", ".", "s", ".", "e", "n", "d", "s", "w", "i", "t", "h", "(", "'", "a", "'", ")">>,
     <<"p", "a", "y", "l", "o", "a", "d", ".", "s", ".", "e", "n", "d", "s", "w", "i", "t", "h", "(", "a", ")">>,
     <<"p", "a", "y", "l", "o", "a", "d", ".", "s", ".", "e", "n", "d", "s", "w", "i", "t", "h", "(", "\"", "a", "\"", ")", ")">>}
RefusedExprs ==
    {<<"i", "n", "v", "a", "l", "i", "d", " ", "s", "y", "n", "t", "a", "x">>,
     <<>>,
     <<"p", "a", "y", "l", "o", "a", "d", ".", "s">>,
     <<"p", "a", "y", "l", "o", "a", "d", ".", "s", " ", "!", "=", " ", "\"", "a", "\"">>,
     <<"p", "a", "y", "l", "o", "a", "d", ".", "s", "=", "=", "\"", "a", "\"">>,
     <<"s", " ", "=", "=", " ", "\"", "a", "\"">>,
     <<"p", "a", "y", "l", "o", "a", "d", "_", "[", "'", "s", "]", " ", "=", "=", " ", "'", "a", "'">>,
     <<"p", "a", "y", "l", "o", "a", "d", ".", "s", ".", "s", "t", "a", "r", "t", "s", "w", "i", "t", "h", "(", "\"", "a", "\"", ")">>,
     <<"p", "a", "y", "l", "o", "a", "d", ".", "s", ".", "e", "n", "d", "s", "w", "i", "t", "h", "(", "\"", "a", "\"">>,
     <<"p", "a", "y", "l", "o", "a", "d", "_", "[", "'", "s", "'", "]", ".", "e", "n", "d", "s", "w", "i", "t", "h", "(", "\"", "a", "\"", ")">>,
     <<"j", "w", "t", ".", "s", ".", "e", "n", "d", "s", "w", "i", "t", "h", "(", "\"", "a", "\"", ")">>}

\* shape "eq", "ends" and "sub" are built from a claim name and a literal;
\* shape "other" is a bare expression
CondExprs ==
    {[shape |-> "eq", claim |-> c, literal |-> l, condition |-> EqualityExpr(c, l)] :
        c \in CondClaims, l \in CondLiterals}
    \cup {[shape |-> "ends", claim |-> c, literal |-> l, condition |-> EndswithExpr(c, l)] :
        c \in CondClaims, l \in CondSuffixes}
    \cup {[shape |-> "sub", claim |-> c, literal |-> l, condition |-> SubscriptExpr(c, l)] :
        c \in CondClaims, l \in SubLiterals}
    \cup {[shape |-> "other", claim |-> <<>>, literal |-> <<>>, condition |-> e] :
        e \in LooseExprs \cup RefusedExprs}

\* the evaluator is about to be called on expression e and a claim set
CondInput(e, payload) ==
    [op |-> "input", shape |-> e.shape, claim |-> e.claim, literal |-> e.literal,
     condition |-> e.condition, payload |-> payload, result |-> FALSE,
     warned |-> FALSE]

\* middleware._check_condition(condition, payload)
CheckConditionCall ==
    /\ call.op = "input"
    /\ LET r == CheckConditionLogged(call.condition, call.payload)
       IN  call' = [call EXCEPT !.op = "_check_condition",
                                !.result = r.ok,
                                !.warned = r.warned]
    /\ UNCHANGED <<cfg, now, rate_limit, jwks, reqs, attempts, quiet>>

InitCondition ==
    /\ cfg = PlainConfig("local", TRUE)
    /\ now = StartTime
    /\ rate_limit = [a \in {} |-> 0]
    /\ jwks = NoJwks
    /\ reqs = [s \in {} |-> IdleTask]
    /\ attempts = [a \in {} |-> 0]
    /\ quiet = [a \in {} |-> 0]
    /\ \E e \in CondExprs, payload \in CondPayloads : call = CondInput(e, payload)

NextCondition == CheckConditionCall

SpecCondition == InitCondition /\ [][NextCondition]_vars

(***************************************************************************)
(* C20  For payload.<claim> == "<literal>" the evaluator returns true if   *)
(* and only if the claim is present and is a string exactly equal to the   *)
(* literal; an absent claim yields false.                                  *)
(***************************************************************************)
C20_EqualityExact ==
    (call.op = "_check_condition" /\ call.shape = "eq") =>
        call.result =
            (/\ call.claim \in DOMAIN call.payload
             /\ call.payload[call.claim] = PyStr(call.literal))

(***************************************************************************)
(* C21  For payload.<claim>.endswith("<suffix>") the evaluator returns     *)
(* true if and only if the claim is present, is a string and ends with     *)
(* the suffix; an absent claim or a value that is no string yields false.  *)
(***************************************************************************)
C21_EndswithExact ==
    (call.op = "_check_condition" /\ call.shape = "ends") =>
        call.result =
            (/\ call.claim \in DOMAIN call.payload
             /\ call.payload[call.claim].t = "str"
             /\ EndsWith(call.payload[call.claim].s, call.literal))

\* the text before the first " == ", trimmed
FieldOf(condition) == Strip(Split1(condition, EqOp)[1], Whitespace)

\* the expressions the evaluator does evaluate: with " == ", those whose left
\* side starts with payload. or is payload_['...']; without it, those that
\* end with ")" and have payload. at the start of the text before their first
\* .endswith(
Recognised(condition) ==
    IF Contains(condition, EqOp)
    THEN \/ StartsWith(FieldOf(condition), PayloadDot)
         \/ /\ StartsWith(FieldOf(condition), PayloadSub)
            /\ EndsWith(FieldOf(condition), SubClose)
    ELSE /\ Contains(condition, EndsOp)
         /\ EndsWith(condition, CloseParen)
         /\ StartsWith(Split1(condition, EndsOp)[1], PayloadDot)

(***************************************************************************)
(* C22  As stated: every expression that is neither payload.<claim> ==     *)
(* "<literal>" nor payload.<claim>.endswith("<suffix>") evaluates to false *)
(* and logs a warning.                                                     *)
(***************************************************************************)
C22_AsStated ==
    (call.op = "_check_condition" /\ call.shape \notin {"eq", "ends"}) =>
        (~call.result /\ call.warned)

(***************************************************************************)
(* C22  As amended: every expression outside the recognised ones           *)
(* evaluates to false and logs a warning (failing closed), and a           *)
(* recognised expression is evaluated without that warning.                *)
(***************************************************************************)
C22_UnrecognisedFailsClosed ==
    call.op = "_check_condition" =>
        IF Recognised(call.condition)
        THEN ~call.warned
        ELSE ~call.result /\ call.warned

\* an expression of neither documented shape was refused on a claim set
\* that holds the claim it names
C22_Witness ==
    /\ call.op = "_check_condition"
    /\ call.condition = <<"p", "a", "y", "l", "o", "a", "d", ".", "s", ".", "s", "t", "a", "r", "t", "s", "w", "i", "t", "h", "(", "\"", "a", "\"", ")">>
    /\ call.payload = Dict({<<<<"s">>, PyStr(<<"a">>)>>})
    /\ ~call.result
    /\ call.warned

(***************************************************************************)
(* C23  For payload_['<claim>'] == '<literal>', the literal holding no     *)
(* apostrophe, the evaluator returns true if and only if the claim is      *)
(* present and is a string equal to the literal.                           *)
(***************************************************************************)
C23_SubscriptExact ==
    (call.op = "_check_condition" /\ call.shape = "sub") =>
        call.result =
            (/\ call.claim \in DOMAIN call.payload
             /\ call.payload[call.claim] = PyStr(call.literal))

\* the subscript shape matched a literal that holds double quotes
C23_Witness ==
    /\ call.op = "_check_condition"
    /\ call.shape = "sub"
    /\ call.literal = <<"\"", "a", "\"">>
    /\ call.result

(***************************************************************************)
(* The condition check of _validate_local under several lists of           *)
(* allow-conditions                                                        *)
(***************************************************************************)
CondSubU2 == <<"p", "a", "y", "l", "o", "a", "d", ".", "s", "u", "b", " ", "=", "=", " ", "\"", "u", "2", "\"">>
CondIssEndsA == <<"p", "a", "y", "l", "o", "a", "d", ".", "i", "s", "s", ".", "e", "n", "d", "s", "w", "i", "t", "h", "(", "\"", "A", "\"", ")">>

AdmitConditions ==
    {<<>>, <<CondScopeAdmin>>, <<CondIssEndsA>>, <<CondScopeAdmin, CondIssEndsA>>,
     <<CondIssEndsA, CondScopeAdmin>>, <<CondScopeAdmin, CondSubU2>>,
     <<CondIssEndsA, CondSubU2>>}

AdmitConfigs ==
    {Config("local", TRUE, conds, Opt(IdpA), Opt(Api), ExposeAll) : conds \in AdmitConditions}

AdmitRequests ==
    {Request("GET", "/mcp", "10.0.0.1", a) :
        a \in {NoAuth} \cup {Auth(Bearer \o t.raw) : t \in {TokAdmin, TokUser, TokWrongIss, TokForged}}}

InitAdmit == \E conf \in AdmitConfigs : InitWith(conf, {1})

NextAdmit ==
    \/ \E req \in AdmitRequests : Dispatch(1, req)
    \/ CallNext(1)
    \/ Tick

SpecAdmit == InitAdmit /\ [][NextAdmit]_vars

\* the token of req passes key lookup, signature verification, the expiry
\* check at time t and the issuer/audience check: it reaches the condition
\* check
VerifiedToken(req, conf, cache, t) ==
    /\ KidResolves(req, cache)
    /\ SignatureValid(req, cache)
    /\ ~ExpiredAt(req, t)
    /\ IssuerAudienceValid(req, conf)

(***************************************************************************)
(* C24  A verified token (of a request not over the rate limit) is         *)
(* admitted if and only if every configured allow-condition evaluates to   *)
(* true on its claims; with no condition configured it is admitted, and    *)
(* one failing condition gives 401 'JWT does not meet conditions'.         *)
(***************************************************************************)
C24_AdmittedIffAllConditions ==
    [][\A s \in Tasks :
        (/\ Dispatched(s)
         /\ cfg.strategy = "local"
         /\ Protected(reqs'[s].req)
         /\ ~OverLimit(reqs'[s].req, rate_limit)
         /\ VerifiedToken(reqs'[s].req, cfg, jwks', now')) =>
            IF \A i \in 1..Len(cfg.allow_conditions) :
                  CheckCondition(cfg.allow_conditions[i], TokenOf(reqs'[s].req).payload)
            THEN reqs'[s].pc = "call_next"
            ELSE /\ reqs'[s].result = "rejected"
                 /\ reqs'[s].status = 401
                 /\ reqs'[s].detail = "JWT does not meet conditions"]_vars

\* a verified token was refused because the second of two conditions failed
\* while the first held
C24_Witness ==
    \E s \in Tasks :
        /\ Len(cfg.allow_conditions) = 2
        /\ reqs[s].detail = "JWT does not meet conditions"
        /\ CheckCondition(cfg.allow_conditions[1], TokenOf(reqs[s].req).payload)
        /\ ~CheckCondition(cfg.allow_conditions[2], TokenOf(reqs[s].req).payload)

(***************************************************************************)
(* Reading the claim context and the tools that read it:                   *)
(* mcp_app/context.py, mcp_app/tools/hello_world.py, mcp_app/tools/whoami.py *)
(***************************************************************************)
\* what get_jwt_payload returns: a dict, or None (some = FALSE)
NoPayload == [some |-> FALSE, d |-> EmptyDict]

\* get_jwt_payload()
GetJwtPayload(ctx) ==
    IF ctx.set THEN [some |-> TRUE, d |-> ctx.jwt_payload] ELSE NoPayload

\* bool(payload): None and the empty dict are false
Truthy(payload) == payload.some /\ DOMAIN payload.d # {}

RECURSIVE SplitFrom(_, _)
\* the words of s after the word cur that is being read
SplitFrom(s, cur) ==
    IF s = <<>>
    THEN (IF cur = <<>> THEN <<>> ELSE <<cur>>)
    ELSE IF Head(s) \in Whitespace
    THEN (IF cur = <<>> THEN <<>> ELSE <<cur>>) \o SplitFrom(Tail(s), <<>>)
    ELSE SplitFrom(Tail(s), Append(cur, Head(s)))

\* s.split()
SplitWords(s) == SplitFrom(s, <<>>)

ToolUser == <<"t", "o", "o", "l", ":", "u", "s", "e", "r">>
ToolAdmin == <<"t", "o", "o", "l", ":", "a", "d", "m", "i", "n">>

\* payload.get("scope", "")
ScopeOf(d) == IF cScope \in DOMAIN d THEN d[cScope] ELSE PyStr(<<>>)

\* scope.split() if isinstance(scope, str) else scope or [], then
\* '<required> not in scopes': "in", "not in", or "TypeError" when scopes is
\* a value that has no membership test
ScopeTest(d, required) ==
    LET scope == ScopeOf(d)
    IN  IF scope.t = "str"
        THEN (IF \E i \in 1..Len(SplitWords(scope.s)) : SplitWords(scope.s)[i] = required
              THEN "in" ELSE "not in")
        ELSE IF scope.t = "list"
        THEN (IF \E i \in 1..Len(scope.l) : scope.l[i] = required THEN "in" ELSE "not in")
        ELSE IF scope.t = "int" /\ scope.n # 0
        THEN "TypeError"
        ELSE "not in"

\* what a tool call gives: out is "greeting", "message", "payload" or the
\* name of the exception raised
ToolResult(out, name, d) == [out |-> out, name |-> name, payload |-> d]

\* hello_world(name)
HelloWorld(name, ctx) ==
    LET payload == GetJwtPayload(ctx)
    IN  IF Truthy(payload) /\ ScopeTest(payload.d, ToolUser) = "TypeError"
        THEN ToolResult("TypeError", <<>>, EmptyDict)
        ELSE IF Truthy(payload) /\ ScopeTest(payload.d, ToolUser) = "not in"
        THEN ToolResult("PermissionError", <<>>, EmptyDict)
        ELSE ToolResult("greeting", name, EmptyDict)

\* mutant of Whoami: a call without a claim set is refused
Whoami_AbsentDenied(ctx) ==
    LET payload == GetJwtPayload(ctx)
    IN  IF ~Truthy(payload)
        THEN ToolResult("PermissionError", <<>>, EmptyDict)
        ELSE IF ScopeTest(payload.d, ToolAdmin) = "TypeError"
        THEN ToolResult("TypeError", <<>>, EmptyDict)
        ELSE IF ScopeTest(payload.d, ToolAdmin) = "not in"
        THEN ToolResult("PermissionError", <<>>, EmptyDict)
        ELSE ToolResult("payload", <<>>, payload.d)

\* whoami()
Whoami(ctx) ==
    LET payload == GetJwtPayload(ctx)
    IN  IF ~Truthy(payload)
        THEN ToolResult("message", <<>>, EmptyDict)
        ELSE IF ScopeTest(payload.d, ToolAdmin) = "TypeError"
        THEN ToolResult("TypeError", <<>>, EmptyDict)
        ELSE IF ScopeTest(payload.d, ToolAdmin) = "not in"
        THEN ToolResult("PermissionError", <<>>, EmptyDict)
        ELSE ToolResult("payload", <<>>, payload.d)

(***************************************************************************)
(* set_jwt_context and the tools on their own                              *)
(***************************************************************************)
cEmail == <<"e", "m", "a", "i", "l">>

ScopeValues ==
    {PyStr(s) : s \in {<<>>, ToolUser, ToolAdmin, <<"t", "o", "o", "l", ":", "u", "s", "e", "r", " ", "t", "o", "o", "l", ":", "a", "d", "m", "i", "n">>,
                       <<"r", "e", "a", "d", " ", " ", "t", "o", "o", "l", ":", "u", "s", "e", "r">>, <<"t", "o", "o", "l", ":", "a", "d", "m", "i", "n", "i", "s", "t", "r", "a", "t", "o", "r">>,
                       <<"t", "o", "o", "l", ":", "u", "s", "e", "r", ",", "t", "o", "o", "l", ":", "a", "d", "m", "i", "n">>}}
    \cup {PyList(l) : l \in {<<>>, <<ToolUser>>, <<<<"r", "e", "a", "d">>, ToolAdmin>>}}
    \cup {PyInt(0), PyInt(5)}

\* the claims a verified payload may hold besides scope
OtherClaims ==
    {<<cSub, PyStr(<<"u", "1">>)>>, <<cEmail, PyStr(<<"u", "@", "x">>)>>, <<cRoles, PyList(<<<<"d", "e", "v">>>>)>>}

CtxPayloads ==
    {Dict(others \cup scope) :
        others \in SUBSET OtherClaims,
        scope \in {{}} \cup {{<<cScope, v>>} : v \in ScopeValues}}

Policies ==
    {ExposeAll, ExposeOther}
    \cup {ExposeList(names) : names \in {{}, {cSub}, {cEmail}, {cSub, cEmail}, {cAud}}}

ToolNames == {<<"A", "n", "n">>}

NoResult == ToolResult("none", <<>>, EmptyDict)

\* a verified payload is about to be propagated under a policy
CtxInput(token, payload, policy) ==
    [op |-> "input", token |-> token, payload |-> payload, policy |-> policy,
     ctx |-> CtxDefault, result |-> NoResult]

\* set_jwt_context(token, payload)
SetJwtContextCall ==
    /\ call.op = "input"
    /\ call' = [call EXCEPT !.op = "set_jwt_context",
                            !.ctx = SetJwtContext(call.token, call.payload, call.policy)]
    /\ UNCHANGED <<cfg, now, rate_limit, jwks, reqs, attempts, quiet>>

\* hello_world(name), with or without a claim context stored before
HelloWorldCall(name) ==
    /\ call.op \in {"input", "set_jwt_context"}
    /\ call' = [call EXCEPT !.op = "hello_world", !.result = HelloWorld(name, call.ctx)]
    /\ UNCHANGED <<cfg, now, rate_limit, jwks, reqs, attempts, quiet>>

\* whoami(), with or without a claim context stored before
WhoamiCall ==
    /\ call.op \in {"input", "set_jwt_context"}
    /\ call' = [call EXCEPT !.op = "whoami", !.result = Whoami(call.ctx)]
    /\ UNCHANGED <<cfg, now, rate_limit, jwks, reqs, attempts, quiet>>

InitContext ==
    /\ cfg = PlainConfig("local", TRUE)
    /\ now = StartTime
    /\ rate_limit = [a \in {} |-> 0]
    /\ jwks = NoJwks
    /\ reqs = [s \in {} |-> IdleTask]
    /\ attempts = [a \in {} |-> 0]
    /\ quiet = [a \in {} |-> 0]
    /\ \E payload \in CtxPayloads, policy \in Policies :
          call = CtxInput(TokAdmin.raw, payload, policy)

NextContext ==
    \/ SetJwtContextCall
    \/ \E name \in ToolNames : HelloWorldCall(name)
    \/ WhoamiCall

SpecContext == InitContext /\ [][NextContext]_vars

\* set_jwt_context has stored a claim set
Stored == call.op # "none" /\ call.ctx.set

(***************************************************************************)
(* C25  With policy "all" the stored claim set equals the verified         *)
(* payload; with a list policy L it is the payload restricted to the       *)
(* names in L together with roles and scope: no name outside them is       *)
(* kept, every one of them the payload holds is kept, with its value.      *)
(***************************************************************************)
C25_FilterKeepsListedAndAlways ==
    Stored =>
        LET stored == call.ctx.jwt_payload
            kept == call.policy.names \cup {cRoles, cScope}
        IN  /\ call.policy.kind = "all" => stored = call.payload
            /\ call.policy.kind = "list" =>
                  /\ DOMAIN stored = DOMAIN call.payload \cap kept
                  /\ \A k \in DOMAIN stored : stored[k] = call.payload[k]

\* a list policy dropped a claim and kept scope, which it does not list
C25_Witness ==
    /\ Stored
    /\ call.policy.kind = "list"
    /\ cScope \notin call.policy.names
    /\ cScope \in DOMAIN call.ctx.jwt_payload
    /\ cEmail \in DOMAIN call.payload
    /\ cEmail \notin DOMAIN call.ctx.jwt_payload

(***************************************************************************)
(* C26  With a policy that is neither "all" nor a list the stored claim    *)
(* set is the full verified payload.                                       *)
(***************************************************************************)
C26_MisconfiguredExposesAll ==
    (Stored /\ call.policy.kind = "other") => call.ctx.jwt_payload = call.payload

\* a payload of several claims was stored whole under such a policy
C26_Witness ==
    /\ Stored
    /\ call.policy.kind = "other"
    /\ {cSub, cEmail, cScope} \subseteq DOMAIN call.ctx.jwt_payload

\* w is one of the whitespace-separated words of s
WordIn(s, w) ==
    \E i \in 1..(Len(s) - Len(w) + 1) :
        /\ SubSeq(s, i, i + Len(w) - 1) = w
        /\ i = 1 \/ s[i - 1] \in Whitespace
        /\ i + Len(w) - 1 = Len(s) \/ s[i + Len(w)] \in Whitespace

\* the scope claim of claim set d, a space-separated string or a list,
\* contains the scope required
HasScope(d, required) ==
    /\ cScope \in DOMAIN d
    /\ \/ d[cScope].t = "str" /\ WordIn(d[cScope].s, required)
       \/ d[cScope].t = "list" /\ \E i \in 1..Len(d[cScope].l) : d[cScope].l[i] = required

(***************************************************************************)
(* C28  When no validation has stored a claim context, get_jwt_payload     *)
(* returns None, whoami returns its 'No JWT available' message and         *)
(* hello_world returns its greeting; neither raises.                       *)
(***************************************************************************)
C28_AbsentIsNoIdentity ==
    (call.op \in {"whoami", "hello_world"} /\ ~call.ctx.set) =>
        /\ GetJwtPayload(call.ctx) = NoPayload
        /\ call.op = "whoami" => call.result.out = "message"
        /\ call.op = "hello_world" =>
              call.result.out = "greeting" /\ call.result.name \in ToolNames

\* whoami was called with no claim context stored
C28_Witness ==
    /\ call.op = "whoami"
    /\ ~call.ctx.set
    /\ call.result.out = "message"

(***************************************************************************)
(* C29  When a claim set was propagated, hello_world raises                *)
(* PermissionError unless the propagated scope contains tool:user, and     *)
(* then it greets; it runs without a scope check only when no claim set    *)
(* was propagated.                                                         *)
(***************************************************************************)
C29_HelloWorldRequiresToolUser ==
    call.op = "hello_world" =>
        IF call.ctx.set
        THEN IF HasScope(call.ctx.jwt_payload, ToolUser)
             THEN call.result.out = "greeting"
             ELSE call.result.out = "PermissionError"
        ELSE call.result.out = "greeting"

(***************************************************************************)
(* C30  whoami returns the propagated claim set, unchanged, if and only    *)
(* if its scope contains tool:admin; with a propagated claim set lacking   *)
(* that scope it raises PermissionError.                                   *)
(***************************************************************************)
C30_WhoamiRequiresToolAdmin ==
    (call.op = "whoami" /\ call.ctx.set) =>
        IF HasScope(call.ctx.jwt_payload, ToolAdmin)
        THEN call.result.out = "payload" /\ call.result.payload = call.ctx.jwt_payload
        ELSE call.result.out = "PermissionError"

(***************************************************************************)
(* Two requests in flight at once: each runs in a task of its own, and the *)
(* event loop interleaves the tasks at their awaits                        *)
(***************************************************************************)
\* validation attempts made in one behaviour
MaxArrivals == 4

ConcurrentTasks == {1, 2}

ConcurrentConfigs ==
    {Config("local", TRUE, <<>>, Opt(IdpA), Opt(Api), e) : e \in {ExposeAll, ExposeList({cSub})}}

ConcurrentRequests ==
    {Request("GET", "/mcp", "10.0.0.1", a) :
        a \in {NoAuth, Auth(Bearer \o TokAdmin.raw), Auth(Bearer \o TokUser.raw)}}
    \cup {Request("OPTIONS", "/mcp", "10.0.0.1", Auth(Bearer \o TokAdmin.raw))}

InitConcurrent == \E conf \in ConcurrentConfigs : InitWith(conf, ConcurrentTasks)

NextConcurrent ==
    \/ \E s \in ConcurrentTasks, req \in ConcurrentRequests :
          /\ RateGet(attempts, ClientIp(req)) < MaxArrivals
          /\ Dispatch(s, req)
    \/ \E s \in ConcurrentTasks : CallNext(s)
    \/ Tick

SpecConcurrent == InitConcurrent /\ [][NextConcurrent]_vars

(***************************************************************************)
(* C27  Under any interleaving of concurrent requests the claim set and    *)
(* token a request's downstream handler reads are absent or the ones       *)
(* stored by the validation of that same request.                          *)
(***************************************************************************)
C27_ContextPerRequest ==
    \A s \in Tasks :
        (reqs[s].result = "forwarded" /\ reqs[s].seen.set) =>
            /\ Protected(reqs[s].req)
            /\ CarriesToken(reqs[s].req)
            /\ reqs[s].seen = ExpectedContext(reqs[s].req, cfg)

\* a handler has read its own request's claims while a request that arrived
\* earlier, with another token, was still waiting for its handler
C27_Witness ==
    \E s, t \in Tasks :
        /\ reqs[s].result = "forwarded"
        /\ reqs[s].seen.set
        /\ reqs[t].pc = "call_next"
        /\ reqs[t].ctx.set
        /\ reqs[t].ctx.jwt_token # reqs[s].seen.jwt_token
        /\ reqs[t].attempt < reqs[s].attempt

(***************************************************************************)
(* C31  A validation that succeeds appends exactly one header to the       *)
(* request, named by forwarded_header, whose value is the first 10         *)
(* characters of the token followed by '...' and never the whole token.    *)
(***************************************************************************)
C31_ForwardedHeaderMasked ==
    \A s \in Tasks :
        reqs[s].stage = "propagate" =>
            /\ Len(reqs[s].appended) = 1
            /\ reqs[s].appended[1][1] = cfg.forwarded_header
            /\ reqs[s].appended[1][2] = SubSeq(RawOf(reqs[s].req), 1, 10) \o <<".", ".", ".">>
            /\ reqs[s].appended[1][2] # RawOf(reqs[s].req)

\* a validated request was handed on with its forwarded header
C31_Witness ==
    \E s \in Tasks :
        /\ reqs[s].stage = "propagate"
        /\ reqs[s].result = "forwarded"
        /\ reqs[s].appended # <<>>

(***************************************************************************)
(* C32  A token is verified with the algorithm that the cached key entry   *)
(* for its kid declares: one signed by that key with that algorithm,       *)
(* unexpired and with valid issuer and audience, passes verification, and  *)
(* one that passes was signed with the declared algorithm.                 *)
(***************************************************************************)
C32_VerifiedWithDeclaredAlgorithm ==
    \A s \in Tasks :
        (/\ cfg.strategy = "local"
         /\ reqs[s].stage \in {"verify", "conditions", "propagate"}) =>
            LET tok == TokenOf(reqs[s].req)
                key == jwks.keys[tok.kid]
            IN  /\ reqs[s].stage # "verify" => tok.alg = key.alg
                /\ (/\ tok.alg = key.alg
                    /\ tok.signer = key.mat
                    /\ ~ExpiredAt(reqs[s].req, now)
                    /\ IssuerAudienceValid(reqs[s].req, cfg)) => reqs[s].stage # "verify"

(***************************************************************************)
(* Access logs: AccessLogsMiddleware (mcp_app/middlewares/access_logs.py)  *)
(***************************************************************************)
Uppers == <<"A", "B", "C", "D", "E", "F", "G", "H", "I", "J", "K", "L", "M", "N", "O", "P", "Q", "R", "S", "T", "U", "V", "W", "X", "Y", "Z">>
Lowers == <<"a", "b", "c", "d", "e", "f", "g", "h", "i", "j", "k", "l", "m", "n", "o", "p", "q", "r", "s", "t", "u", "v", "w", "x", "y", "z">>

\* s.lower()
Lower(s) ==
    [i \in 1..Len(s) |->
        IF \E j \in 1..Len(Uppers) : Uppers[j] = s[i]
        THEN Lowers[CHOOSE j \in 1..Len(Uppers) : Uppers[j] = s[i]]
        ELSE s[i]]

Redacted == <<"[", "R", "E", "D", "A", "C", "T", "E", "D", "]">>

\* default_redacted
DefaultRedacted == {<<"a", "u", "t", "h", "o", "r", "i", "z", "a", "t", "i", "o", "n">>, <<"x", "-", "a", "p", "i", "-", "k", "e", "y">>, <<"x", "-", "a", "u", "t", "h", "-", "t", "o", "k", "e", "n">>, <<"c", "o", "o", "k", "i", "e">>}

\* AccessLogsMiddleware(app, excluded_headers, redacted_headers)
NewAccessLogs(excluded_headers, redacted_headers) ==
    [excluded_headers |-> excluded_headers,
     redacted_headers |-> redacted_headers \cup DefaultRedacted,
     max_body_size |-> 1024]

\* the "headers" entry of the request log: the loop over request.headers.items()
LoggedHeaders(mw, headers) ==
    [name \in {h \in DOMAIN headers : Lower(h) \notin mw.excluded_headers} |->
        IF Lower(name) \in mw.redacted_headers THEN Redacted ELSE headers[name]]

\* the "body" entry of the request log, from what the content-length header
\* holds: "none" (no header, or a length over max_body_size), "invalid"
\* (int() raised ValueError), "text" (the body, decoded)
LoggedBody(mw, content_length) ==
    IF content_length.kind = "absent" THEN "none"
    ELSE IF content_length.kind = "text" THEN "invalid"
    ELSE IF content_length.n <= mw.max_body_size THEN "text"
    ELSE "none"

\* dispatch(request, call_next), the downstream handler answering with
\* answer (a status code, or 0 when it raises): the two log records, the
\* number of calls of call_next and what dispatch returns
AccessLogsDispatch(mw, headers, content_length, answer) ==
    [request_log |-> [headers |-> LoggedHeaders(mw, headers),
                      body |-> LoggedBody(mw, content_length)],
     response_log |-> IF answer = 0 THEN 0 ELSE answer,
     called |-> 1,
     returned |-> answer]

HeaderNames ==
    {<<"a", "u", "t", "h", "o", "r", "i", "z", "a", "t", "i", "o", "n">>, <<"A", "u", "t", "h", "o", "r", "i", "z", "a", "t", "i", "o", "n">>, <<"c", "o", "o", "k", "i", "e">>, <<"x", "-", "u", "p", "s", "t", "r", "e", "a", "m", "-", "t", "o", "k", "e", "n">>, <<"a", "c", "c", "e", "p", "t">>}

\* every header carries the same secret value
HeaderSets == {[name \in names |-> <<"s", "3", "c", "r", "e", "t">>] : names \in SUBSET HeaderNames}

ExcludedLists == {{}, {<<"a", "c", "c", "e", "p", "t">>}, {<<"A", "c", "c", "e", "p", "t">>}, {<<"a", "u", "t", "h", "o", "r", "i", "z", "a", "t", "i", "o", "n">>, <<"a", "c", "c", "e", "p", "t">>}}
RedactedLists == {{}, {<<"x", "-", "u", "p", "s", "t", "r", "e", "a", "m", "-", "t", "o", "k", "e", "n">>}, {<<"X", "-", "U", "p", "s", "t", "r", "e", "a", "m", "-", "T", "o", "k", "e", "n">>}}

ContentLengths ==
    {[kind |-> "absent", n |-> 0], [kind |-> "text", n |-> 0],
     [kind |-> "int", n |-> 9], [kind |-> "int", n |-> 5000]}

Answers == {200, 404, 0}

\* nothing logged, nothing called yet
NoLog ==
    [request_log |-> [headers |-> <<>>, body |-> "none"], response_log |-> 0,
     called |-> 0, returned |-> 0]

LogInput(excluded, redacted, headers, content_length) ==
    [op |-> "input", excluded |-> excluded, redacted |-> redacted,
     headers |-> headers, content_length |-> content_length, answer |-> 0,
     out |-> NoLog]

\* a request passes through the access-log middleware
AccessLogsCall(answer) ==
    /\ call.op = "input"
    /\ call' = [call EXCEPT
                  !.op = "dispatch",
                  !.answer = answer,
                  !.out = AccessLogsDispatch(NewAccessLogs(call.excluded, call.redacted),
                                             call.headers, call.content_length, answer)]
    /\ UNCHANGED <<cfg, now, rate_limit, jwks, reqs, attempts, quiet>>

InitAccessLogs ==
    /\ cfg = PlainConfig("local", TRUE)
    /\ now = StartTime
    /\ rate_limit = [a \in {} |-> 0]
    /\ jwks = NoJwks
    /\ reqs = [s \in {} |-> IdleTask]
    /\ attempts = [a \in {} |-> 0]
    /\ quiet = [a \in {} |-> 0]
    /\ \E e \in ExcludedLists, r \in RedactedLists, h \in HeaderSets, c \in ContentLengths :
          call = LogInput(e, r, h, c)

NextAccessLogs == \E answer \in Answers : AccessLogsCall(answer)

SpecAccessLogs == InitAccessLogs /\ [][NextAccessLogs]_vars

\* header name is one of the names, header names compared without regard to
\* case
NamedBy(name, names) == \E n \in names : Lower(n) = Lower(name)

(***************************************************************************)
(* C33  Every request header named by the configured redacted_headers or   *)
(* by the default set is logged as '[REDACTED]' (never with its value),    *)
(* every header named by excluded_headers is left out of the log, and the  *)
(* downstream handler is called exactly once, its response returned        *)
(* unchanged.                                                              *)
(***************************************************************************)
C33_RedactedNeverLogged ==
    call.op = "dispatch" =>
        LET logged == call.out.request_log.headers
        IN  /\ \A name \in DOMAIN call.headers :
                  /\ NamedBy(name, call.excluded) => name \notin DOMAIN logged
                  /\ (/\ NamedBy(name, call.redacted \cup DefaultRedacted)
                      /\ name \in DOMAIN logged) => logged[name] = Redacted
            /\ call.out.called = 1
            /\ call.out.returned = call.answer

(***************************************************************************)
(* Assembly of the application: FastAPIApp._add_middlewares                *)
(***************************************************************************)
\* the part of the application's configuration that _add_middlewares reads,
\* and oauth_whitelist_domains.  enabled: config.middleware.jwt.enabled;
\* local: "none" (validation.local is None), "model" (a
\* JWTValidationLocalConfig as config.py declares it, with no issuer and no
\* audience attribute) or "object" (an object that carries both besides
\* jwks_uri, as the stand-ins of tests/test_main.py do)
AppConfiguration(enabled, strategy, local, jwks_uri, oauth_whitelist_domains) ==
    [enabled |-> enabled, strategy |-> strategy, local |-> local,
     jwks_uri |-> jwks_uri, oauth_whitelist_domains |-> oauth_whitelist_domains]

\* the keyword arguments app.add_middleware(JWTValidationMiddleware, ...) is
\* given: whitelist_domains is not among them, so the constructor's default
\* applies
JwtMiddlewareArgs(app) ==
    ConfigAt(app.strategy, IF app.local = "none" THEN <<>> ELSE app.jwks_uri, <<>>)

\* _add_middlewares and the construction of the middleware it registers:
\* "none" (no JWT middleware is added), "AttributeError" (local_config.issuer
\* on a JWTValidationLocalConfig), "ValueError" (raised by the constructor)
\* or "built", with the key cache of the middleware
AddJwtMiddleware(app) ==
    IF ~app.enabled
    THEN [result |-> "none", jwks |-> NoJwks]
    ELSE IF app.local = "model"
    THEN [result |-> "AttributeError", jwks |-> NoJwks]
    ELSE LET m == NewMiddleware(JwtMiddlewareArgs(app))
         IN  IF m.raised
             THEN [result |-> "ValueError", jwks |-> NoJwks]
             ELSE [result |-> "built", jwks |-> m.jwks]

\* the application is assembled
Assemble ==
    /\ call.op = "input"
    /\ LET a == AddJwtMiddleware(call.app)
       IN  /\ call' = [call EXCEPT !.op = "_add_middlewares", !.result = a.result]
           /\ jwks' = a.jwks
    /\ UNCHANGED <<cfg, now, rate_limit, reqs, attempts, quiet>>

\* the JWT middleware is part of the application
Assembled == call.op = "_add_middlewares" /\ call.result = "built"

AppConfigurations ==
    {AppConfiguration(e, s, l, u, w) :
        e \in BOOLEAN, s \in {"local", "external"}, l \in {"none", "model", "object"},
        u \in {<<"h", "t", "t", "p", "s", ":", "/", "/", "a", ".", "i", "o", "/", "k">>, <<"h", "t", "t", "p", "s", ":", "/", "/", "b", ".", "i", "o", "/", "k">>},
        w \in ConstructWhitelists}

InitAssemble ==
    /\ \E app \in AppConfigurations :
          /\ cfg = JwtMiddlewareArgs(app)
          /\ call = [op |-> "input", app |-> app, result |-> "none"]
    /\ now = StartTime
    /\ rate_limit = [a \in {} |-> 0]
    /\ jwks = NoJwks
    /\ reqs = [s \in {1} |-> IdleTask]
    /\ attempts = [a \in {} |-> 0]
    /\ quiet = [a \in {} |-> 0]

NextAssemble ==
    \/ Assemble
    \/ \E req \in ConstructRequests : Assembled /\ Dispatch(1, req)
    \/ Assembled /\ CallNext(1)
    \/ Tick

SpecAssemble == InitAssemble /\ [][NextAssemble]_vars

\* the allow-list of the application is not empty and no entry of it is a
\* suffix of the host of the JWKS URI, under the local strategy
JwksSourceUncovered(app) ==
    /\ app.enabled
    /\ app.strategy = "local"
    /\ app.local # "none"
    /\ app.oauth_whitelist_domains # <<>>
    /\ \A i \in 1..Len(app.oauth_whitelist_domains) :
          ~EndsWith(HostOf(app.jwks_uri), app.oauth_whitelist_domains[i])

C35_RefreshOnlyLazily ==
    [][/\ jwks' # jwks =>
              /\ GetKeyStep
              /\ call'.fetches = 1
              /\ call'.at - jwks.last_updated > jwks.cache_interval
       /\ (GetKeyStep /\ ~(call'.at - jwks.last_updated > jwks.cache_interval)) =>
              /\ call'.fetches = 0
              /\ jwks' = jwks
       /\ (GetKeyStep /\ jwks = NewJWKSCache(jwks.cache_interval)) =>
              call'.fetches = 1]_vars

\* a lookup made exactly cache_interval after the last refresh fetched
\* nothing
C35_Witness ==
    /\ call.op = "get_key"
    /\ call.before.last_updated > 0
    /\ call.at - call.before.last_updated = call.before.cache_interval
    /\ call.fetches = 0
    /\ jwks = call.before

(***************************************************************************)
(* C36  One validation attempt fetches the key set at most once: when the  *)
(* kid is still unresolved after the lookup the attempt ends with 401      *)
(* without another fetch, and on a fresh cache no fetch is made at all,    *)
(* whether the kid is found or missed.                                     *)
(***************************************************************************)
C36_AtMostOneFetch ==
    [][\A s \in Tasks :
        (Dispatched(s) /\ cfg.strategy = "local") =>
            /\ reqs'[s].fetches <= 1
            /\ reqs'[s].stage = "lookup" =>
                  /\ reqs'[s].result = "rejected"
                  /\ reqs'[s].status = 401
                  /\ TokenOf(reqs'[s].req).kid \notin DOMAIN jwks'.keys
            /\ now - jwks.last_updated <= jwks.cache_interval =>
                  /\ reqs'[s].fetches = 0
                  /\ jwks' = jwks]_vars

\* a kid was missed on a fresh cache and the attempt ended without a fetch
C36_Witness ==
    \E s \in Tasks :
        /\ reqs[s].stage = "lookup"
        /\ reqs[s].fetches = 0
        /\ reqs[s].status = 401
        /\ jwks.last_updated > 0

(***************************************************************************)
(* C37  Under any interleaving of concurrent requests the mapping of the   *)
(* cache is always the whole mapping of one fetched document, stamped      *)
(* with the time of that fetch, and every lookup answers from the whole    *)
(* mapping it leaves behind (the one from before when it did not refresh); *)
(* requests that both find the cache stale each refresh it in turn.        *)
(***************************************************************************)
C37_LookupSeesWholeMapping ==
    [][/\ jwks' # jwks =>
              /\ \E doc \in Docs : jwks'.keys = DocKeys(doc)
              /\ jwks'.last_updated = now'
              /\ jwks'.cache_interval = jwks.cache_interval
              /\ \E s \in Tasks : Dispatched(s) /\ reqs'[s].fetches = 1
       /\ \A s \in Tasks :
              (Dispatched(s) /\ reqs'[s].stage \in {"lookup", "jwk", "verify", "conditions", "propagate"}) =>
                  /\ reqs'[s].fetches = 0 => jwks' = jwks
                  /\ (reqs'[s].stage = "lookup") =
                        (TokenOf(reqs'[s].req).kid \notin DOMAIN jwks'.keys)]_vars

\* two requests in flight at once have each found the cache stale and
\* refreshed it
C37_Witness ==
    /\ \A s \in ConcurrentTasks :
          s \in Tasks /\ reqs[s].pc = "call_next" /\ reqs[s].fetches = 1
    /\ DOMAIN jwks.keys # {}

(***************************************************************************)
(* Two requests in flight at once against the rate limiter: enough         *)
(* attempts from one address to pass the limit, while the other task is    *)
(* suspended in call_next                                                  *)
(***************************************************************************)
\* the address that makes the burst, with and without a token, and a second
\* address that makes one attempt of its own
BurstRequests ==
    {Request("GET", "/mcp", "10.0.0.1", a) : a \in {NoAuth, Auth(Bearer \o TokPlain.raw)}}
    \cup {Request("GET", "/mcp", NoClient, NoAuth)}

InitBurst == InitWith(PlainConfig("local", TRUE), ConcurrentTasks)

NextBurst ==
    \/ \E s \in ConcurrentTasks, req \in BurstRequests :
          /\ req.client = NoClient => ClientIp(req) \notin DOMAIN attempts
          /\ Dispatch(s, req)
    \/ \E s \in ConcurrentTasks : CallNext(s)

SpecBurst == InitBurst /\ [][NextBurst]_vars

\* the attempts from ip that passed the rate check, among the attempts made
PassedOf(att, ip) ==
    IF RateGet(att, ip) <= MAX_RATE_LIMIT_REQUESTS + 1
    THEN RateGet(att, ip)
    ELSE MAX_RATE_LIMIT_REQUESTS + 1

(***************************************************************************)
(* C38  Under any interleaving of concurrent requests, an attempt that     *)
(* passes the rate check raises the counter of its address by exactly one  *)
(* over the value left by the attempt before it, an attempt answered 429   *)
(* and every other step leave the counters alone, so the counter of an     *)
(* address is the number of attempts from it that passed the rate check,   *)
(* never decreases and never exceeds MAX_RATE_LIMIT_REQUESTS + 1.          *)
(***************************************************************************)
C38_RateCounterAtomic ==
    [][/\ \A s \in Tasks :
              Dispatched(s) =>
                  LET ip == ClientIp(reqs'[s].req)
                  IN  /\ \A a \in DOMAIN rate_limit \ {ip} :
                             RateGet(rate_limit', a) = rate_limit[a]
                      /\ RateGet(rate_limit', ip) =
                             IF reqs'[s].stage = "rate"
                             THEN RateGet(rate_limit, ip)
                             ELSE RateGet(rate_limit, ip) + 1
                      /\ (reqs'[s].stage = "rate") =
                             (RateGet(rate_limit, ip) > MAX_RATE_LIMIT_REQUESTS)
       /\ (\A s \in Tasks : ~Dispatched(s)) => rate_limit' = rate_limit
       /\ \A a \in DOMAIN rate_limit' :
              /\ RateGet(rate_limit', a) >= RateGet(rate_limit, a)
              /\ rate_limit'[a] <= MAX_RATE_LIMIT_REQUESTS + 1
              /\ attempts'[a] < MaxAttempts =>
                     rate_limit'[a] = PassedOf(attempts', a)]_vars

\* an attempt has been answered 429 with the counter at its maximum while the
\* other task, whose attempt passed the rate check, still waits for its handler
C38_Witness ==
    \E s, t \in Tasks :
        /\ reqs[s].stage = "rate"
        /\ reqs[s].status = 429
        /\ RateGet(rate_limit, ClientIp(reqs[s].req)) = MAX_RATE_LIMIT_REQUESTS + 1
        /\ reqs[t].pc = "call_next"
        /\ ClientIp(reqs[t].req) = ClientIp(reqs[s].req)
        /\ reqs[t].attempt > 1

cPermissions == <<"p", "e", "r", "m", "i", "s", "s", "i", "o", "n", "s">>

\* payload.get("permissions", [])
PermissionsOf(d) == IF cPermissions \in DOMAIN d THEN d[cPermissions] ELSE PyList(<<>>)

\* '"tool:user" not in permissions': membership in a list, containment in a
\* str, "TypeError" for a value that has no membership test
PermissionsTest(d, required) ==
    LET permissions == PermissionsOf(d)
    IN  IF permissions.t = "list"
        THEN (IF \E i \in 1..Len(permissions.l) : permissions.l[i] = required
              THEN "in" ELSE "not in")
        ELSE IF permissions.t = "str"
        THEN (IF Contains(permissions.s, required) THEN "in" ELSE "not in")
        ELSE "TypeError"

\* mcp_components.tools.hello_world.hello_world(name)
HelloWorldComponents(name, ctx) ==
    LET payload == GetJwtPayload(ctx)
    IN  IF Truthy(payload) /\ PermissionsTest(payload.d, ToolUser) = "TypeError"
        THEN ToolResult("TypeError", <<>>, EmptyDict)
        ELSE IF Truthy(payload) /\ PermissionsTest(payload.d, ToolUser) = "not in"
        THEN ToolResult("PermissionError", <<>>, EmptyDict)
        ELSE ToolResult("greeting", name, EmptyDict)

\* verified payloads with and without the claims the tools authorise on
AuthzPayloads ==
    {Dict(others \cup scope \cup permissions) :
        others \in SUBSET {<<cSub, PyStr(<<"u", "1">>)>>, <<cRoles, PyList(<<<<"d", "e", "v">>>>)>>},
        scope \in {{}} \cup {{<<cScope, v>>} :
                      v \in {PyStr(ToolUser), PyStr(ToolAdmin),
                             PyStr(ToolUser \o <<" ">> \o ToolAdmin), PyList(<<ToolUser>>)}},
        permissions \in {{}} \cup {{<<cPermissions, v>>} :
                      v \in {PyList(<<ToolUser>>), PyList(<<>>), PyStr(ToolUser), PyInt(5)}}}

AuthzPolicies == Policies \cup {ExposeList({cPermissions})}

\* mcp_components.tools.hello_world.hello_world(name), with or without a
\* claim context stored before
HelloWorldComponentsCall(name) ==
    /\ call.op \in {"input", "set_jwt_context"}
    /\ call' = [call EXCEPT !.op = "hello_world_components",
                            !.result = HelloWorldComponents(name, call.ctx)]
    /\ UNCHANGED <<cfg, now, rate_limit, jwks, reqs, attempts, quiet>>

InitAuthz ==
    /\ cfg = PlainConfig("local", TRUE)
    /\ now = StartTime
    /\ rate_limit = [a \in {} |-> 0]
    /\ jwks = NoJwks
    /\ reqs = [s \in {} |-> IdleTask]
    /\ attempts = [a \in {} |-> 0]
    /\ quiet = [a \in {} |-> 0]
    /\ \E payload \in AuthzPayloads, policy \in AuthzPolicies :
          call = CtxInput(TokAdmin.raw, payload, policy)

NextAuthz ==
    \/ SetJwtContextCall
    \/ \E name \in ToolNames : HelloWorldCall(name)
    \/ \E name \in ToolNames : HelloWorldComponentsCall(name)
    \/ WhoamiCall

SpecAuthz == InitAuthz /\ [][NextAuthz]_vars

\* the tool op called with ctx as the claim context
ToolOn(op, name, ctx) ==
    IF op = "hello_world" THEN HelloWorld(name, ctx)
    ELSE IF op = "hello_world_components" THEN HelloWorldComponents(name, ctx)
    ELSE Whoami(ctx)

\* what the caller of a tool gets: an answer, or the exception raised
Decision(result) ==
    IF result.out \in {"greeting", "message", "payload"} THEN "allow" ELSE result.out

(***************************************************************************)
(* C40  Every registered tool decides a call made with the filtered claim  *)
(* set of a verified payload as it decides the call made with the whole    *)
(* payload, for every payload and every exposed-claims policy.             *)
(***************************************************************************)
C40_FilteringKeepsDecisions ==
    (call.op \in {"hello_world", "hello_world_components", "whoami"} /\ call.ctx.set) =>
        Decision(call.result) =
            Decision(ToolOn(call.op, CHOOSE n \in ToolNames : TRUE,
                            [set |-> TRUE, jwt_token |-> call.token,
                             jwt_payload |-> call.payload]))

====
